---------------------------- MODULE Spec2Model ----------------------------
(***************************************************************************)
(* A model of weave's remote-query compiler (src/weave/compile_domain.py): *)
(* the translation pass apply_domain_op_gql_translation over a node graph, *)
(* fragment synthesis over the stitched graph, and the normalisation of    *)
(* the assembled GraphQL document (_normalize_query_str).                  *)
(*                                                                         *)
(* Text.  A query string is modelled as the sequence of its lexical        *)
(* tokens.  Whitespace, newlines and commas are ignored characters of the  *)
(* query language, and graphql.utilities.strip_ignored_characters maps     *)
(* every text to the canonical text of its token sequence, so two          *)
(* normalised strings are byte-identical exactly when their token          *)
(* sequences are equal.                                                    *)
(***************************************************************************)
EXTENDS Integers, Sequences, FiniteSets, TLC

(***************************************************************************)
(* Bounds of the model.                                                    *)
(***************************************************************************)
\* selections in a generated document over the core heads
MaxSel == 5
\* selections in a generated document over all heads (alias, arguments, ...)
MaxRichSel == 3
\* the selections of a document over the heads with argument lists
MaxArgSel == 2
\* OutputNodes a client builds before the translation is called
MaxOutputs == 3
\* calls of the translation in a row, each on the forest the last returned
MaxCalls == 2
\* members of a generated Union
MaxMembers == 2
\* merge_types calls in a row
MaxMerges == 2

None == "None"

(***************************************************************************)
(* Lexical tokens.                                                         *)
(***************************************************************************)
Punctuators == {"{", "}", "(", ")", ":", "..."}
IntTokens == {"1", "2"}
IsName(t) == t \notin Punctuators /\ t \notin IntTokens
IsValue(t) == t \notin Punctuators

(***************************************************************************)
(* The AST of graphql.language.ast, restricted to what the compiler reads. *)
(* A selection is a FieldNode, an InlineFragmentNode or a                  *)
(* FragmentSpreadNode; absent alias / type_condition / selection_set are   *)
(* None.                                                                   *)
(***************************************************************************)
NoSet == [isNone |-> TRUE, selections |-> <<>>]
SelectionSetNode(sels) == [isNone |-> FALSE, selections |-> sels]

FieldNode(alias, name, arguments, selection_set) ==
    [kind |-> "Field", alias |-> alias, name |-> name, arguments |-> arguments,
     type_condition |-> None, selection_set |-> selection_set]
InlineFragmentNode(type_condition, selection_set) ==
    [kind |-> "InlineFragment", alias |-> None, name |-> None, arguments |-> <<>>,
     type_condition |-> type_condition, selection_set |-> selection_set]
FragmentSpreadNode(name) ==
    [kind |-> "FragmentSpread", alias |-> None, name |-> name, arguments |-> <<>>,
     type_condition |-> None, selection_set |-> NoSet]

\* a top-level definition: an operation (query) or a fragment definition
OperationDefinitionNode(name, sels) ==
    [kind |-> "OperationDefinition", name |-> name, type_condition |-> None,
     selections |-> sels]
FragmentDefinitionNode(name, tc, sels) ==
    [kind |-> "FragmentDefinition", name |-> name, type_condition |-> tc,
     selections |-> sels]


(***************************************************************************)
(* graphql.language.print_ast followed by strip_ignored_characters: the    *)
(* token sequence of the printed text.  print_ast's block() prints nothing *)
(* for an empty list of selections, and an operation whose prefix is the   *)
(* bare word query is printed in the shorthand form, as its selection set  *)
(* alone.                                                                  *)
(***************************************************************************)
RECURSIVE PrintArguments(_)
PrintArguments(args) ==
    IF args = <<>> THEN <<>>
    ELSE <<Head(args)[1], ":", Head(args)[2]>> \o PrintArguments(Tail(args))

RECURSIVE PrintSelections(_)
RECURSIVE PrintSelection(_)
PrintBlock(sels) ==
    IF sels = <<>> THEN <<>> ELSE <<"{">> \o PrintSelections(sels) \o <<"}">>

PrintSelection(s) ==
    CASE s.kind = "Field" ->
           (IF s.alias = None THEN <<>> ELSE <<s.alias, ":">>)
           \o <<s.name>>
           \o (IF s.arguments = <<>> THEN <<>>
               ELSE <<"(">> \o PrintArguments(s.arguments) \o <<")">>)
           \o PrintBlock(s.selection_set.selections)
      [] s.kind = "InlineFragment" ->
           <<"...">>
           \o (IF s.type_condition = None THEN <<>> ELSE <<"on", s.type_condition>>)
           \o PrintBlock(s.selection_set.selections)
      [] OTHER -> <<"...", s.name>>

PrintSelections(sels) ==
    IF sels = <<>> THEN <<>>
    ELSE PrintSelection(Head(sels)) \o PrintSelections(Tail(sels))

PrintDefinition(d) ==
    IF d.kind = "OperationDefinition"
    THEN (IF d.name = None THEN <<>> ELSE <<"query", d.name>>)
         \o PrintBlock(d.selections)
    ELSE <<"fragment", d.name, "on", d.type_condition>> \o PrintBlock(d.selections)

RECURSIVE PrintAst(_)
PrintAst(defs) ==
    IF defs = <<>> THEN <<>>
    ELSE PrintDefinition(Head(defs)) \o PrintAst(Tail(defs))

(***************************************************************************)
(* graphql.language.parse: a recursive-descent parser over the tokens.     *)
(* Every parser returns [ok, val, pos]: whether it succeeded, the node(s)  *)
(* parsed and the position of the next token.  ok = FALSE is a             *)
(* GraphQLSyntaxError.                                                     *)
(***************************************************************************)
EOF == "<EOF>"
Tok(toks, i) == IF i >= 1 /\ i <= Len(toks) THEN toks[i] ELSE EOF
IsNameTok(t) == IsName(t) /\ t # EOF
IsValueTok(t) == IsValue(t) /\ t # EOF
Failed == [ok |-> FALSE, val |-> <<>>, pos |-> 0]
Parsed(v, next) == [ok |-> TRUE, val |-> v, pos |-> next]

\* parse_arguments: many(parse_argument) up to ")" -- at least one argument
RECURSIVE ParseArgumentList(_, _, _)
ParseArgumentList(toks, i, acc) ==
    IF IsNameTok(Tok(toks, i)) /\ Tok(toks, i + 1) = ":" /\ IsValueTok(Tok(toks, i + 2))
    THEN IF Tok(toks, i + 3) = ")"
         THEN Parsed(Append(acc, <<Tok(toks, i), Tok(toks, i + 2)>>), i + 4)
         ELSE ParseArgumentList(toks, i + 3, Append(acc, <<Tok(toks, i), Tok(toks, i + 2)>>))
    ELSE Failed

RECURSIVE ParseSelectionList(_, _, _)

\* parse_selection_set: "{" selection+ "}"
ParseSelectionSet(toks, i) ==
    IF Tok(toks, i) = "{" THEN ParseSelectionList(toks, i + 1, <<>>) ELSE Failed

\* parse_field, once its selection set c is parsed
FieldWithSet(alias, name, arguments, c) ==
    IF c.ok THEN Parsed(FieldNode(alias, name, arguments, SelectionSetNode(c.val)), c.pos)
    ELSE Failed

\* parse_field, once its arguments a are parsed: [selection_set]
FieldAfterArguments(toks, alias, name, a) ==
    IF ~ a.ok THEN Failed
    ELSE IF Tok(toks, a.pos) = "{"
    THEN FieldWithSet(alias, name, a.val, ParseSelectionSet(toks, a.pos))
    ELSE Parsed(FieldNode(alias, name, a.val, NoSet), a.pos)

\* parse_field, once alias and name are read (the next token is at j): [arguments]
FieldAfterName(toks, alias, name, j) ==
    IF ~ IsNameTok(name) THEN Failed
    ELSE FieldAfterArguments(toks, alias, name,
             IF Tok(toks, j) = "(" THEN ParseArgumentList(toks, j + 1, <<>>)
             ELSE Parsed(<<>>, j))

\* parse_field: [alias ":"] name [arguments] [selection_set]
ParseField(toks, i) ==
    IF ~ IsNameTok(Tok(toks, i)) THEN Failed
    ELSE IF Tok(toks, i + 1) = ":"
    THEN FieldAfterName(toks, Tok(toks, i), Tok(toks, i + 2), i + 3)
    ELSE FieldAfterName(toks, None, Tok(toks, i), i + 1)

\* parse_fragment, once the selection set c of the inline fragment is parsed
InlineFragmentWithSet(tc, c) ==
    IF c.ok THEN Parsed(InlineFragmentNode(tc, SelectionSetNode(c.val)), c.pos) ELSE Failed

\* parse_fragment: "..." name  |  "..." ["on" type] selection_set
ParseFragment(toks, i) ==
    IF Tok(toks, i + 1) = "on"
    THEN IF IsNameTok(Tok(toks, i + 2))
         THEN InlineFragmentWithSet(Tok(toks, i + 2), ParseSelectionSet(toks, i + 3))
         ELSE Failed
    ELSE IF IsNameTok(Tok(toks, i + 1))
    THEN Parsed(FragmentSpreadNode(Tok(toks, i + 1)), i + 2)
    ELSE InlineFragmentWithSet(None, ParseSelectionSet(toks, i + 1))

ParseSelection(toks, i) ==
    IF Tok(toks, i) = "..." THEN ParseFragment(toks, i) ELSE ParseField(toks, i)

\* many(): after the selection s, stop at "}" or parse the next one
SelectionListAfter(toks, acc, s) ==
    IF ~ s.ok THEN Failed
    ELSE IF Tok(toks, s.pos) = "}" THEN Parsed(Append(acc, s.val), s.pos + 1)
    ELSE ParseSelectionList(toks, s.pos, Append(acc, s.val))

ParseSelectionList(toks, i, acc) ==
    SelectionListAfter(toks, acc, ParseSelection(toks, i))

\* a definition of the given kind, once its selection set c is parsed
DefinitionWithSet(kind, name, tc, c) ==
    IF ~ c.ok THEN Failed
    ELSE IF kind = "OperationDefinition"
    THEN Parsed(OperationDefinitionNode(name, c.val), c.pos)
    ELSE Parsed(FragmentDefinitionNode(name, tc, c.val), c.pos)

\* parse_definition: a shorthand query, "query" [name] selection_set, or
\* "fragment" name "on" type selection_set
ParseDefinition(toks, i) ==
    CASE Tok(toks, i) = "{" ->
           DefinitionWithSet("OperationDefinition", None, None, ParseSelectionSet(toks, i))
      [] Tok(toks, i) = "query" ->
           IF IsNameTok(Tok(toks, i + 1))
           THEN DefinitionWithSet("OperationDefinition", Tok(toks, i + 1), None,
                                  ParseSelectionSet(toks, i + 2))
           ELSE DefinitionWithSet("OperationDefinition", None, None,
                                  ParseSelectionSet(toks, i + 1))
      [] Tok(toks, i) = "fragment" ->
           IF IsNameTok(Tok(toks, i + 1)) /\ Tok(toks, i + 1) # "on"
              /\ Tok(toks, i + 2) = "on" /\ IsNameTok(Tok(toks, i + 3))
           THEN DefinitionWithSet("FragmentDefinition", Tok(toks, i + 1), Tok(toks, i + 3),
                                  ParseSelectionSet(toks, i + 4))
           ELSE Failed
      [] OTHER -> Failed

\* parse_document: definition+ up to the end of the text
RECURSIVE ParseDefinitionList(_, _, _)
DefinitionListAfter(toks, acc, d) ==
    IF ~ d.ok THEN Failed
    ELSE IF d.pos > Len(toks) THEN Parsed(Append(acc, d.val), d.pos)
    ELSE ParseDefinitionList(toks, d.pos, Append(acc, d.val))

ParseDefinitionList(toks, i, acc) ==
    DefinitionListAfter(toks, acc, ParseDefinition(toks, i))

Parse(toks) == ParseDefinitionList(toks, 1, <<>>)

(***************************************************************************)
(* The merge of sibling selections.                                        *)
(***************************************************************************)
RECURSIVE ArgumentsAgree(_, _)
ArgumentsAgree(args1, args2) ==
    IF args1 = <<>> \/ args2 = <<>> THEN TRUE
    ELSE /\ Head(args1)[1] = Head(args2)[1]
         /\ Head(args1)[2] = Head(args2)[2]
         /\ ArgumentsAgree(Tail(args1), Tail(args2))

\* a comparison of fields that takes the arguments as a set
_field_selections_are_mergeable_any_order(selection1, selection2) ==
    /\ selection1.name = selection2.name
    /\ selection1.alias = selection2.alias
    /\ { selection1.arguments[k] : k \in 1..Len(selection1.arguments) }
          = { selection2.arguments[k] : k \in 1..Len(selection2.arguments) }

_field_selections_are_mergeable(selection1, selection2) ==
    /\ selection1.name = selection2.name
    /\ ~ (selection1.alias = None /\ selection2.alias # None)
    /\ ~ (selection1.alias # None /\ selection2.alias = None)
    /\ ~ (selection1.alias # None /\ selection2.alias # None
          /\ selection1.alias # selection2.alias)
    /\ Len(selection1.arguments) = Len(selection2.arguments)
    /\ ArgumentsAgree(selection1.arguments, selection2.arguments)

\* reading .name of a None type_condition raises AttributeError
FragmentCompareRaises(selection1, selection2) ==
    selection1.type_condition = None \/ selection2.type_condition = None

_fragment_selections_are_mergeable(selection1, selection2) ==
    selection1.type_condition = selection2.type_condition

should_merge(selection, new_selection) ==
    \/ /\ selection.kind = "Field"
       /\ new_selection.kind = "Field"
       /\ _field_selections_are_mergeable(selection, new_selection)
    \/ /\ selection.kind = "InlineFragment"
       /\ new_selection.kind = "InlineFragment"
       /\ _fragment_selections_are_mergeable(selection, new_selection)

\* a merge that puts the later selection's children first
MergeChildren_later_first(new_selection, selection) ==
    IF selection.selection_set.isNone THEN new_selection
    ELSE [new_selection EXCEPT !.selection_set =
             SelectionSetNode(selection.selection_set.selections
                              \o new_selection.selection_set.selections)]

\* a merge that drops the later selection together with its children
MergeChildren_drops_children(new_selection, selection) == new_selection

\* the merge of selection into new_selection (lines 184-192)
MergeChildren(new_selection, selection) ==
    IF selection.selection_set.isNone THEN new_selection
    ELSE [new_selection EXCEPT !.selection_set =
             SelectionSetNode(new_selection.selection_set.selections
                              \o selection.selection_set.selections)]

\* the sequence seq without its j-th element
WithoutIndex(seq, j) == SubSeq(seq, 1, j - 1) \o SubSeq(seq, j + 1, Len(seq))

\* an inner loop that moves the selection merged into to the end
MergeOrAppend_moves_merged(new_selections, selection, j) ==
    IF \E k \in 1..Len(new_selections) :
           /\ selection.kind = "InlineFragment"
           /\ new_selections[k].kind = "InlineFragment"
           /\ FragmentCompareRaises(selection, new_selections[k])
    THEN [err |-> "AttributeError", selections |-> <<>>]
    ELSE IF \E k \in 1..Len(new_selections) : should_merge(selection, new_selections[k])
    THEN [err |-> None,
          selections |->
              Append(WithoutIndex(new_selections,
                         CHOOSE k \in 1..Len(new_selections) :
                             should_merge(selection, new_selections[k])),
                     MergeChildren(new_selections[
                         CHOOSE k \in 1..Len(new_selections) :
                             should_merge(selection, new_selections[k])], selection))]
    ELSE [err |-> None, selections |-> Append(new_selections, selection)]

\* the inner loop over new_selections (lines 170-195), from index j on:
\* [err, selections]
RECURSIVE MergeOrAppend(_, _, _)
MergeOrAppend(new_selections, selection, j) ==
    IF j > Len(new_selections)
    THEN [err |-> None, selections |-> Append(new_selections, selection)]
    ELSE IF /\ selection.kind = "InlineFragment"
            /\ new_selections[j].kind = "InlineFragment"
            /\ FragmentCompareRaises(selection, new_selections[j])
    THEN [err |-> "AttributeError", selections |-> <<>>]
    ELSE IF should_merge(selection, new_selections[j])
    THEN [err |-> None,
          selections |-> [new_selections EXCEPT
                             ![j] = MergeChildren(new_selections[j], selection)]]
    ELSE MergeOrAppend(new_selections, selection, j + 1)

\* the first loop (lines 166-199) from selection i on
RECURSIVE MergeSiblings(_, _, _)
MergeSiblingsAfter(selections, i, r) ==
    IF r.err # None THEN r ELSE MergeSiblings(selections, i + 1, r.selections)

\* a first loop that skips a selection of an unsupported kind
MergeSiblings_skips_unsupported(selections, i, new_selections) ==
    IF i > Len(selections) THEN [err |-> None, selections |-> new_selections]
    ELSE IF selections[i].kind \notin {"Field", "InlineFragment"}
    THEN MergeSiblings(selections, i + 1, new_selections)
    ELSE MergeSiblingsAfter(selections, i, MergeOrAppend(new_selections, selections[i], 1))

MergeSiblings(selections, i, new_selections) ==
    IF i > Len(selections) THEN [err |-> None, selections |-> new_selections]
    ELSE IF selections[i].kind \notin {"Field", "InlineFragment"}
    THEN [err |-> "ValueError", selections |-> <<>>]
    ELSE MergeSiblingsAfter(selections, i, MergeOrAppend(new_selections, selections[i], 1))

RECURSIVE _zip_selection_set(_)
\* the second loop (lines 200-202) from selection i on
RECURSIVE ZipChildren(_, _)
ZipChildrenAfter(new_selections, i, z) ==
    IF z.err # None THEN z
    ELSE ZipChildren([new_selections EXCEPT
                        ![i].selection_set = SelectionSetNode(z.selections)], i + 1)

\* a second loop that leaves the children as the first loop left them
ZipChildren_leaves_children(new_selections, i) ==
    [err |-> None, selections |-> new_selections]

ZipChildren(new_selections, i) ==
    IF i > Len(new_selections) THEN [err |-> None, selections |-> new_selections]
    ELSE IF new_selections[i].selection_set.isNone
    THEN ZipChildren(new_selections, i + 1)
    ELSE ZipChildrenAfter(new_selections, i,
                          _zip_selection_set(new_selections[i].selection_set.selections))

ZipAfterMerge(m) ==
    IF m.err # None THEN m ELSE ZipChildren(m.selections, 1)

\* a zip that zips the children before it merges the siblings
ZipMergedAfter(z) ==
    IF z.err # None THEN z ELSE MergeSiblings(z.selections, 1, <<>>)
_zip_selection_set_children_first(selections) ==
    IF \E i \in 1..Len(selections) : selections[i].kind \notin {"Field", "InlineFragment"}
    THEN [err |-> "ValueError", selections |-> <<>>]
    ELSE ZipMergedAfter(ZipChildren(selections, 1))

\* [err, selections]: the error raised, if any, and the zipped selections
_zip_selection_set(selections) ==
    ZipAfterMerge(MergeSiblings(selections, 1, <<>>))

ZippedDefinition(query_def, z) ==
    IF z.err # None THEN [err |-> z.err, definitions |-> <<>>]
    ELSE [err |-> None, definitions |-> <<[query_def EXCEPT !.selections = z.selections]>>]

\* a zip that takes the first definition of a document of several
_zip_gql_doc_first_definition(definitions) ==
    IF definitions[1].kind # "OperationDefinition"
    THEN [err |-> "ValueError", definitions |-> <<>>]
    ELSE ZippedDefinition(definitions[1], _zip_selection_set(definitions[1].selections))

\* [err, definitions]
_zip_gql_doc(definitions) ==
    IF Len(definitions) > 1 THEN [err |-> "ValueError", definitions |-> <<>>]
    ELSE IF definitions[1].kind # "OperationDefinition"
    THEN [err |-> "ValueError", definitions |-> <<>>]
    ELSE ZippedDefinition(definitions[1], _zip_selection_set(definitions[1].selections))

NormalizedText(z) ==
    IF z.err # None THEN [err |-> z.err, out |-> <<>>]
    ELSE [err |-> None, out |-> PrintAst(z.definitions)]

NormalizeParsed(gql_doc) ==
    IF ~ gql_doc.ok THEN [err |-> "GraphQLSyntaxError", out |-> <<>>]
    ELSE NormalizedText(_zip_gql_doc(gql_doc.val))

\* [err, out]: the error raised, if any, and the normalised query string
_normalize_query_str(query_str) == NormalizeParsed(Parse(query_str))

(***************************************************************************)
(* The documents the normaliser is run on: every forest of selections with *)
(* a bounded number of selection nodes, printed as the body of             *)
(* query WeavePythonCG { ... }, and documents with other top-level         *)
(* definitions.                                                            *)
(***************************************************************************)
SelHead(kind, toks) == [kind |-> kind, toks |-> toks]
CoreHeads ==
    {SelHead("Field", <<"a">>), SelHead("Field", <<"b">>),
     SelHead("InlineFragment", <<"...", "on", "T">>)}
RichHeads ==
    CoreHeads \cup
    {SelHead("Field", <<"x", ":", "a">>),
     SelHead("Field", <<"a", "(", "k", ":", "1", ")">>),
     SelHead("Field", <<"a", "(", "k", ":", "2", ")">>),
     SelHead("InlineFragment", <<"...", "on", "U">>),
     SelHead("InlineFragment", <<"...">>),
     SelHead("FragmentSpread", <<"...", "F">>)}

\* fields with argument lists: the same arguments in another order, a
\* prefix of them, and an alias
ArgHeads ==
    {SelHead("Field", <<"a", "(", "k", ":", "1", "j", ":", "2", ")">>),
     SelHead("Field", <<"a", "(", "j", ":", "2", "k", ":", "1", ")">>),
     SelHead("Field", <<"a", "(", "k", ":", "1", ")">>),
     SelHead("Field", <<"x", ":", "a", "(", "k", ":", "1", ")">>)}

Block(c) == IF c = <<>> THEN <<>> ELSE <<"{">> \o c \o <<"}">>

\* the texts of the forests of exactly n selections over the heads H: a field
\* has any children, an inline fragment at least one, a fragment spread none
RECURSIVE Forests(_, _)
TreesOver(k, H, children) ==
    { h.toks \o Block(c) :
        h \in { g \in H : \/ g.kind = "Field"
                          \/ g.kind = "InlineFragment" /\ k > 1
                          \/ g.kind = "FragmentSpread" /\ k = 1 },
        c \in children }
Trees(k, H) == TreesOver(k, H, Forests(k - 1, H))
Forests(n, H) ==
    IF n = 0 THEN { <<>> }
    ELSE UNION { { t \o f : t \in Trees(k, H), f \in Forests(n - k, H) } :
                 k \in 1..n }

ForestsUpTo(n, H) == UNION { Forests(k, H) : k \in 1..n }

QueryOf(f) == <<"query", "WeavePythonCG">> \o Block(f)
FragmentDefOf(f) == <<"fragment", "F", "on", "T">> \o Block(f)

OtherDefinitions == { <<"query", "Q", "{", "a", "}">>, FragmentDefOf(<<"a">>) }

\* texts the parser rejects
Malformed ==
    { <<>>, <<"query", "WeavePythonCG", "{", "}">>,
      <<"query", "WeavePythonCG", "{", "runs", "{", "}", "}">>,
      <<"query", "WeavePythonCG", "{", "...", "on", "T", "}">>,
      <<"query", "WeavePythonCG", "{", "a", "(", ")", "}">>,
      <<"query", "WeavePythonCG", "{", "a">>,
      <<"fragment", "on", "on", "T", "{", "a", "}">> }

Documents ==
    Malformed \cup
    { QueryOf(f) : f \in ForestsUpTo(MaxSel, CoreHeads) \cup ForestsUpTo(MaxRichSel, RichHeads)
                         \cup ForestsUpTo(MaxArgSel, ArgHeads) }
    \cup UNION { { Block(f), <<"query">> \o Block(f), FragmentDefOf(f) }
                 \cup { QueryOf(f) \o d : d \in OtherDefinitions }
                 \cup { d \o QueryOf(f) : d \in OtherDefinitions } :
                 f \in ForestsUpTo(MaxRichSel, CoreHeads) }

(***************************************************************************)
(* The node graph.  Nodes live in an arena, a sequence of node records;    *)
(* a node is its index.  The inputs of an OutputNode are an ordered        *)
(* mapping, a sequence of <<parameter name, node>> pairs.  A string value  *)
(* is a token sequence; an op name is the sequence of its chunks, so that  *)
(* str.endswith is the suffix test on chunks.                              *)
(***************************************************************************)
ConstNode(type, val) ==
    [kind |-> "Const", type |-> type, op |-> <<>>, inputs |-> <<>>, val |-> val]
VarNode(type, name) ==
    [kind |-> "Var", type |-> type, op |-> <<>>, inputs |-> <<>>, val |-> <<name>>]
OutputNode(type, op_name, inputs) ==
    [kind |-> "Output", type |-> type, op |-> op_name, inputs |-> inputs, val |-> <<>>]

IsOutput(nodes, n) == nodes[n].kind = "Output"
InputNodes(node) == [i \in 1..Len(node.inputs) |-> node.inputs[i][2]]

(***************************************************************************)
(* The op registry: the ops the graphs are built from.                     *)
(***************************************************************************)
OpRootProject == <<"root", "-", "project">>
OpProjectRuns == <<"project", "-", "runs">>
OpRunsPage == <<"runs", "-", "page">>
OpLimit == <<"limit">>
OpRunName == <<"run", "-", "name">>
OpAdd == <<"string", "-", "add">>
OpRunsFilter == <<"runs", "-", "filter">>
OpRunsIndex == <<"runs", "-", "index">>
OpMappedProjectRuns == <<"mapped_", "project", "-", "runs">>
OpMappedRunName == <<"mapped_", "run", "-", "name">>
OpGqlRoot == <<"gqlroot", "-", "wbgqlquery">>

GqlOpPlugin(query_fn, is_root) == [query_fn |-> query_fn, is_root |-> is_root]
NoPlugin == [query_fn |-> None, is_root |-> FALSE]

\* plugins = NoPlugin: no "wb_domain_gql" entry; derived_from = <<>>: none
OpDef(name, params, types, output, plugin) ==
    [name |-> name, params |-> params, types |-> types, output |-> output,
     plugins |-> plugin, derived_from |-> <<>>, mapped |-> FALSE]

\* the mapped (vectorized) form of the op base: it refers to base as the op
\* it is derived from and has no "wb_domain_gql" entry of its own
MappedOpDef(name, base) ==
    [base EXCEPT !.name = name, !.plugins = NoPlugin, !.derived_from = base.name,
                 !.mapped = TRUE]

BaseOps ==
    << OpDef(OpRootProject, <<"name">>, <<"Const(String)">>, "Project",
             GqlOpPlugin("project", TRUE)),
       OpDef(OpProjectRuns, <<"project">>, <<"Project">>, "Runs",
             GqlOpPlugin("runs", TRUE)),
       OpDef(OpRunsPage, <<"runs">>, <<"Runs">>, "Runs", GqlOpPlugin("page", TRUE)),
       OpDef(OpLimit, <<"arr", "limit">>, <<"Runs", "Number">>, "Runs", NoPlugin),
       OpDef(OpRunName, <<"run">>, <<"Runs">>, "String", GqlOpPlugin("name", FALSE)),
       OpDef(OpAdd, <<"lhs", "rhs">>, <<"String", "String">>, "String", NoPlugin),
       OpDef(OpRunsFilter, <<"arr">>, <<"Runs">>, "Runs", NoPlugin),
       OpDef(OpRunsIndex, <<"arr">>, <<"Runs">>, "Runs", GqlOpPlugin("index", TRUE)) >>

Registry ==
    BaseOps \o
    << MappedOpDef(OpMappedProjectRuns, BaseOps[2]),
       MappedOpDef(OpMappedRunName, BaseOps[5]),
       OpDef(OpGqlRoot, <<"query_str", "output_type">>, <<"String", "Type">>, "Any",
             NoPlugin) >>

\* the ops the clients of the translation call
ClientOps ==
    { i \in 1..Len(Registry) :
        Registry[i].name \in {OpRootProject, OpProjectRuns, OpRunsPage, OpLimit, OpRunName,
                              OpAdd} }

\* the ops the clients of the fragment synthesis call: local, pass-through
\* and mapped ops among them
FragmentOps ==
    { i \in 1..Len(Registry) :
        Registry[i].name \in {OpProjectRuns, OpLimit, OpRunName, OpRunsFilter, OpRunsIndex,
                              OpMappedProjectRuns, OpMappedRunName} }

\* registry_mem.memory_registry.get_op(name)
get_op(name) == Registry[CHOOSE i \in 1..Len(Registry) : Registry[i].name = name]

\* the value of key in a sequence of <<key, value>> pairs
Lookup(pairs, key) ==
    pairs[CHOOSE i \in 1..Len(pairs) : pairs[i][1] = key][2]

\* the query_fn of each plugin: (const inputs, child fragment) -> fragment
QueryFn(query_fn, const_node_input_vals, child_fragment) ==
    CASE query_fn = "project" ->
           <<"project", "(", "name", ":">> \o Lookup(const_node_input_vals, "name")
           \o <<")", "{", "id">> \o child_fragment \o <<"}">>
      [] query_fn = "page" -> <<"page", "{", "id">> \o child_fragment \o <<"}">>
      [] query_fn = "runs" -> <<"runs", "{">> \o child_fragment \o <<"}">>
      [] query_fn = "index" -> <<"index", "{">> \o child_fragment \o <<"}">>
      [] OTHER -> <<"name">>

(***************************************************************************)
(* graph.py: the traversal of a forest.  Every distinct node is visited    *)
(* once, the inputs of a node before the node (post-order), in the order   *)
(* of the leaf nodes and of each node's inputs.                            *)
(***************************************************************************)
InSeq(seq, x) == \E i \in 1..Len(seq) : seq[i] = x

RECURSIVE Visit(_, _, _)
RECURSIVE VisitInputs(_, _, _, _)
VisitInputs(nodes, n, i, acc) ==
    IF i > Len(nodes[n].inputs) THEN acc
    ELSE VisitInputs(nodes, n, i + 1, Visit(nodes, nodes[n].inputs[i][2], acc))
Visit(nodes, n, acc) ==
    IF InSeq(acc, n) THEN acc ELSE Append(VisitInputs(nodes, n, 1, acc), n)

RECURSIVE VisitAll(_, _, _, _)
VisitAll(nodes, leaf_nodes, i, acc) ==
    IF i > Len(leaf_nodes) THEN acc
    ELSE VisitAll(nodes, leaf_nodes, i + 1, Visit(nodes, leaf_nodes[i], acc))

PostOrder(nodes, leaf_nodes) == VisitAll(nodes, leaf_nodes, 1, <<>>)

_get_gql_plugin(op_def) == op_def.plugins

\* a root test that forgets is_root
_is_root_node_any_plugin(nodes, n) ==
    /\ IsOutput(nodes, n)
    /\ _get_gql_plugin(get_op(nodes[n].op)) # NoPlugin

_is_root_node(nodes, n) ==
    /\ IsOutput(nodes, n)
    /\ _get_gql_plugin(get_op(nodes[n].op)) # NoPlugin
    /\ _get_gql_plugin(get_op(nodes[n].op)).is_root

\* graph.filter_all_nodes(leaf_nodes, _is_root_node): the root nodes of the forest
filter_all_nodes(nodes, leaf_nodes) ==
    SelectSeq(PostOrder(nodes, leaf_nodes), LAMBDA n : _is_root_node(nodes, n))

(***************************************************************************)
(* stitch.py: for every OutputNode visited and every input of it that is   *)
(* an OutputNode, a call {node, input_name} is recorded against the input. *)
(* The stitched graph maps each node of the forest to its calls.           *)
(***************************************************************************)
Call(node, input_name) == [node |-> node, input_name |-> input_name]

\* a stitch that records a consumer once per node it consumes
RECURSIVE RecordCalls_once_per_parent(_, _, _, _)
RecordCalls_once_per_parent(nodes, n, i, sg) ==
    IF i > Len(nodes[n].inputs) THEN sg
    ELSE RecordCalls_once_per_parent(nodes, n, i + 1,
             IF /\ IsOutput(nodes, nodes[n].inputs[i][2])
                /\ \A k \in 1..Len(sg[nodes[n].inputs[i][2]]) :
                      sg[nodes[n].inputs[i][2]][k].node # n
             THEN [sg EXCEPT ![nodes[n].inputs[i][2]] =
                      Append(@, Call(n, nodes[n].inputs[i][1]))]
             ELSE sg)

RECURSIVE RecordCalls(_, _, _, _)
RecordCalls(nodes, n, i, sg) ==
    IF i > Len(nodes[n].inputs) THEN sg
    ELSE RecordCalls(nodes, n, i + 1,
             IF IsOutput(nodes, nodes[n].inputs[i][2])
             THEN [sg EXCEPT ![nodes[n].inputs[i][2]] =
                      Append(@, Call(n, nodes[n].inputs[i][1]))]
             ELSE sg)

RECURSIVE StitchNodes(_, _, _, _)
StitchNodes(nodes, order, j, sg) ==
    IF j > Len(order) THEN sg
    ELSE StitchNodes(nodes, order, j + 1, RecordCalls(nodes, order[j], 1, sg))

stitch(nodes, leaf_nodes) ==
    StitchNodes(nodes, PostOrder(nodes, leaf_nodes), 1, [n \in 1..Len(nodes) |-> <<>>])

\* StitchedGraph.get_result(node).calls: empty for a node with no recorded consumer
get_result(stitchedGraph, n) ==
    IF n \in DOMAIN stitchedGraph THEN stitchedGraph[n] ELSE <<>>

(***************************************************************************)
(* Fragment synthesis.                                                     *)
(***************************************************************************)
EndsWith(name, suffix) ==
    /\ Len(name) >= Len(suffix)
    /\ SubSeq(name, Len(name) - Len(suffix) + 1, Len(name)) = suffix

\* lines 73-76: the op of the node, or the op it is the mapped form of
FragmentOpDef(name) ==
    IF get_op(name).derived_from # <<>> /\ get_op(name).mapped
    THEN get_op(get_op(name).derived_from)
    ELSE get_op(name)

\* a pass-through test that does not know limit
is_passthrough_without_limit(op_def) ==
    \/ EndsWith(op_def.name, <<"offset">>)
    \/ EndsWith(op_def.name, <<"index">>)
    \/ EndsWith(op_def.name, <<"__getitem__">>)
    \/ EndsWith(op_def.name, <<"concat">>)
    \/ EndsWith(op_def.name, <<"contains">>)
    \/ EndsWith(op_def.name, <<"list">>)
    \/ EndsWith(op_def.name, <<"flatten">>)
    \/ EndsWith(op_def.name, <<"dropna">>)
    \/ op_def.name = <<"list", "-", "createIndexCheckpointTag">>

is_passthrough(op_def) ==
    \/ EndsWith(op_def.name, <<"offset">>)
    \/ EndsWith(op_def.name, <<"limit">>)
    \/ EndsWith(op_def.name, <<"index">>)
    \/ EndsWith(op_def.name, <<"__getitem__">>)
    \/ EndsWith(op_def.name, <<"concat">>)
    \/ EndsWith(op_def.name, <<"contains">>)
    \/ EndsWith(op_def.name, <<"list">>)
    \/ EndsWith(op_def.name, <<"flatten">>)
    \/ EndsWith(op_def.name, <<"dropna">>)
    \/ op_def.name = <<"list", "-", "createIndexCheckpointTag">>

\* lines 111-115: the inputs that are ConstNodes, as <<name, value>> pairs
RECURSIVE ConstInputVals(_, _, _)
ConstInputVals(nodes, inputs, i) ==
    IF i > Len(inputs) THEN <<>>
    ELSE (IF nodes[inputs[i][2]].kind = "Const"
          THEN << <<inputs[i][1], nodes[inputs[i][2]].val>> >>
          ELSE <<>>)
         \o ConstInputVals(nodes, inputs, i + 1)

RECURSIVE _get_fragment(_, _, _)
\* lines 99-105: the fragments of the calls that are OutputNodes, joined
RECURSIVE ChildFragment(_, _, _, _)

\* a join that puts the fragment of the call recorded last first
ChildFragment_last_first(nodes, stitchedGraph, calls, i) ==
    IF i > Len(calls) THEN <<>>
    ELSE ChildFragment(nodes, stitchedGraph, calls, i + 1)
         \o (IF IsOutput(nodes, calls[i].node)
             THEN _get_fragment(nodes, stitchedGraph, calls[i].node)
             ELSE <<>>)

ChildFragment(nodes, stitchedGraph, calls, i) ==
    IF i > Len(calls) THEN <<>>
    ELSE (IF IsOutput(nodes, calls[i].node)
          THEN _get_fragment(nodes, stitchedGraph, calls[i].node)
          ELSE <<>>)
         \o ChildFragment(nodes, stitchedGraph, calls, i + 1)

\* a synthesis that lets the consumers' fragments through a local op
FragmentOf_no_pruning(nodes, stitchedGraph, n, op_def) ==
    IF _get_gql_plugin(op_def) = NoPlugin \/ is_passthrough(op_def)
    THEN ChildFragment(nodes, stitchedGraph, get_result(stitchedGraph, n), 1)
    ELSE QueryFn(_get_gql_plugin(op_def).query_fn,
                 ConstInputVals(nodes, nodes[n].inputs, 1),
                 ChildFragment(nodes, stitchedGraph, get_result(stitchedGraph, n), 1))

\* a synthesis that asks the plugin before the pass-through list
FragmentOf_plugin_first(nodes, stitchedGraph, n, op_def) ==
    IF _get_gql_plugin(op_def) # NoPlugin
    THEN QueryFn(_get_gql_plugin(op_def).query_fn,
                 ConstInputVals(nodes, nodes[n].inputs, 1),
                 ChildFragment(nodes, stitchedGraph, get_result(stitchedGraph, n), 1))
    ELSE IF is_passthrough(op_def)
    THEN ChildFragment(nodes, stitchedGraph, get_result(stitchedGraph, n), 1)
    ELSE <<>>

FragmentOf(nodes, stitchedGraph, n, op_def) ==
    IF _get_gql_plugin(op_def) = NoPlugin /\ ~ is_passthrough(op_def) THEN <<>>
    ELSE IF is_passthrough(op_def)
    THEN ChildFragment(nodes, stitchedGraph, get_result(stitchedGraph, n), 1)
    ELSE QueryFn(_get_gql_plugin(op_def).query_fn,
                 ConstInputVals(nodes, nodes[n].inputs, 1),
                 ChildFragment(nodes, stitchedGraph, get_result(stitchedGraph, n), 1))

_get_fragment(nodes, stitchedGraph, n) ==
    FragmentOf(nodes, stitchedGraph, n, FragmentOpDef(nodes[n].op))

\* an assembly under another operation name
AssembleQuery_other_name(query_fragment) ==
    <<"query", "WeaveCG", "{">> \o query_fragment \o <<"}">>

\* line 49: query_str = f"query WeavePythonCG {{ {query_fragment} }}"
AssembleQuery(query_fragment) ==
    <<"query", "WeavePythonCG", "{">> \o query_fragment \o <<"}">>

(***************************************************************************)
(* State.                                                                  *)
(***************************************************************************)
VARIABLES
    original,    \* the text the caller first passed to _normalize_query_str
    query_str,   \* the text _normalize_query_str is working on
    npc,         \* its position: parse, zip, print, done, raised (idle: not running)
    gql_doc,     \* the parsed document (its definitions)
    norm_out,    \* the string returned
    norm_err,    \* the error raised
    pass,        \* 1: the first normalisation, 2: the normalisation of its result
    first_out,   \* the string the first normalisation returned
    nodes,       \* the arena of nodes
    leaf_nodes,  \* the forest passed to apply_domain_op_gql_translation
    pc,          \* build, gate, stitch, map, done, raised (idle: not running)
    built,       \* the number of nodes when the translation was called
    p,           \* the stitched graph
    stitch_runs, \* how often stitch.stitch has run
    order,       \* map_all_nodes: the nodes in the order they are mapped
    cursor,           \* map_all_nodes: the position in order
    already_mapped, \* map_all_nodes: node -> the node it is mapped to (0: not yet)
    result,      \* the forest returned
    raised,      \* the error raised
    returned,    \* the forests returned by the calls before this one
    tpc,         \* the type system: assign, assigned, merge (idle: not running)
    next_type,   \* assign_type: the type of the value (the source)
    self_type,   \* assign_type: the declared type (the destination)
    assignable,  \* assign_type: its result
    any_to_invalid, \* the answer for a value of type Any and a declared Invalid
    merged,      \* merge_types: the type merged so far
    merged_with, \* merge_types: the operands of the last merge, <<a, b>>
    merges       \* merge_types: the number of merges done

normVars == <<original, query_str, npc, gql_doc, norm_out, norm_err, pass, first_out>>
transVars == <<nodes, leaf_nodes, pc, built, p, stitch_runs, order, cursor, already_mapped,
               result, raised, returned>>
typeVars == <<tpc, next_type, self_type, assignable, any_to_invalid, merged, merged_with,
              merges>>
vars == <<normVars, transVars, typeVars>>

NormIdle ==
    /\ original = <<>>
    /\ query_str = <<>>
    /\ npc = "idle"
    /\ gql_doc = <<>>
    /\ norm_out = <<>>
    /\ norm_err = None
    /\ pass = 1
    /\ first_out = <<>>

TransIdle ==
    /\ nodes = <<>>
    /\ leaf_nodes = <<>>
    /\ pc = "idle"
    /\ built = 0
    /\ p = <<>>
    /\ stitch_runs = 0
    /\ order = <<>>
    /\ cursor = 0
    /\ already_mapped = <<>>
    /\ result = <<>>
    /\ raised = None
    /\ returned = <<>>

TypeIdle ==
    /\ tpc = "idle"
    /\ next_type = <<>>
    /\ self_type = <<>>
    /\ assignable = FALSE
    /\ any_to_invalid = FALSE
    /\ merged = <<>>
    /\ merged_with = <<>>
    /\ merges = 0

(***************************************************************************)
(* _normalize_query_str, step by step.                                     *)
(***************************************************************************)
NormInit ==
    /\ original \in Documents
    /\ query_str = original
    /\ npc = "parse"
    /\ gql_doc = <<>>
    /\ norm_out = <<>>
    /\ norm_err = None
    /\ pass = 1
    /\ first_out = <<>>
    /\ TransIdle
    /\ TypeIdle

\* line 222: gql_doc = graphql.language.parse(query_str)
ParseStep(r) ==
    IF r.ok
    THEN /\ gql_doc' = r.val
         /\ npc' = "zip"
         /\ UNCHANGED norm_err
    ELSE /\ norm_err' = "GraphQLSyntaxError"
         /\ npc' = "raised"
         /\ UNCHANGED gql_doc

NormParse ==
    /\ npc = "parse"
    /\ ParseStep(Parse(query_str))
    /\ UNCHANGED <<original, query_str, norm_out, pass, first_out, transVars, typeVars>>

\* line 223: gql_doc = _zip_gql_doc(gql_doc)
ZipStep(z) ==
    IF z.err = None
    THEN /\ gql_doc' = z.definitions
         /\ npc' = "print"
         /\ UNCHANGED norm_err
    ELSE /\ norm_err' = z.err
         /\ npc' = "raised"
         /\ UNCHANGED gql_doc

NormZip ==
    /\ npc = "zip"
    /\ ZipStep(_zip_gql_doc(gql_doc))
    /\ UNCHANGED <<original, query_str, norm_out, pass, first_out, transVars, typeVars>>

\* lines 224-226: return strip_ignored_characters(print_ast(gql_doc))
NormPrint ==
    /\ npc = "print"
    /\ norm_out' = PrintAst(gql_doc)
    /\ npc' = "done"
    /\ UNCHANGED <<original, query_str, gql_doc, norm_err, pass, first_out, transVars, typeVars>>

\* the caller normalises the string it got back
NormAgain ==
    /\ npc = "done"
    /\ pass = 1
    /\ first_out' = norm_out
    /\ query_str' = norm_out
    /\ pass' = 2
    /\ npc' = "parse"
    /\ UNCHANGED <<original, gql_doc, norm_out, norm_err, transVars, typeVars>>

NormNext == NormParse \/ NormZip \/ NormPrint \/ NormAgain

NormSpec == NormInit /\ [][NormNext]_vars

(***************************************************************************)
(* The client builds a graph, then apply_domain_op_gql_translation runs on *)
(* a forest of it.                                                         *)
(***************************************************************************)
Leaves ==
    << ConstNode("Project", <<"p">>), VarNode("Runs", "row"),
       ConstNode("Number", <<"1">>), ConstNode("Const(String)", <<"n">>) >>

Init ==
    /\ nodes = Leaves
    /\ leaf_nodes = <<>>
    /\ pc = "build"
    /\ built = 0
    /\ p = <<>>
    /\ stitch_runs = 0
    /\ order = <<>>
    /\ cursor = 0
    /\ already_mapped = <<>>
    /\ result = <<>>
    /\ raised = None
    /\ returned = <<>>
    /\ NormIdle
    /\ TypeIdle

\* graph.OutputNode(...): the client calls op o on the nodes a (and b); each
\* input has the declared type, and no node is built twice.
AddNode(o, a, b) ==
    /\ pc = "build"
    /\ Len(nodes) < Len(Leaves) + MaxOutputs
    /\ nodes[a].type = Registry[o].types[1]
    /\ IF Len(Registry[o].params) = 2 THEN nodes[b].type = Registry[o].types[2] ELSE b = a
    /\ ~ InSeq(nodes, OutputNode(Registry[o].output, Registry[o].name,
                  [i \in 1..Len(Registry[o].params) |->
                      <<Registry[o].params[i], IF i = 1 THEN a ELSE b>>]))
    /\ nodes' = Append(nodes, OutputNode(Registry[o].output, Registry[o].name,
                  [i \in 1..Len(Registry[o].params) |->
                      <<Registry[o].params[i], IF i = 1 THEN a ELSE b>>]))
    /\ UNCHANGED <<leaf_nodes, pc, built, p, stitch_runs, order, cursor, already_mapped,
                   result, raised, returned, normVars, typeVars>>

\* apply_domain_op_gql_translation(leaf_nodes) is called on one or two
\* OutputNodes (b = 0: one)
Translate(a, b) ==
    /\ pc = "build"
    /\ IsOutput(nodes, a)
    /\ b # a
    /\ b # 0 => IsOutput(nodes, b)
    /\ leaf_nodes' = IF b = 0 THEN <<a>> ELSE <<a, b>>
    /\ built' = Len(nodes)
    /\ pc' = "gate"
    /\ UNCHANGED <<nodes, p, stitch_runs, order, cursor, already_mapped, result, raised,
                   returned, normVars, typeVars>>

\* lines 40-41: the gate
Gate ==
    /\ pc = "gate"
    /\ IF filter_all_nodes(nodes, leaf_nodes) = <<>>
       THEN /\ result' = leaf_nodes
            /\ pc' = "done"
       ELSE /\ pc' = "stitch"
            /\ UNCHANGED result
    /\ UNCHANGED <<nodes, leaf_nodes, built, p, stitch_runs, order, cursor, already_mapped,
                   raised, returned, normVars, typeVars>>

\* line 42: p = stitch.stitch(leaf_nodes); line 60: map_all_nodes starts
Stitch ==
    /\ pc = "stitch"
    /\ p' = stitch(nodes, leaf_nodes)
    /\ stitch_runs' = stitch_runs + 1
    /\ order' = PostOrder(nodes, leaf_nodes)
    /\ cursor' = 1
    /\ already_mapped' = [n \in 1..Len(nodes) |-> 0]
    /\ pc' = "map"
    /\ UNCHANGED <<nodes, leaf_nodes, built, result, raised, returned, normVars, typeVars>>

\* the inputs of node n with every input replaced by what it is mapped to
MappedInputs(n) ==
    [i \in 1..Len(nodes[n].inputs) |->
        <<nodes[n].inputs[i][1], already_mapped[nodes[n].inputs[i][2]]>>]

\* a replacement that carries the root's inputs over
ReplaceRoot_keeps_inputs(n, base, rn, q) ==
    IF q.err # None
    THEN /\ raised' = q.err
         /\ pc' = "raised"
         /\ nodes' = base
         /\ UNCHANGED <<cursor, already_mapped>>
    ELSE /\ nodes' = base \o
                << ConstNode("String", q.out),
                   ConstNode("Type", <<base[rn].type>>),
                   OutputNode(base[rn].type, OpGqlRoot,
                              base[rn].inputs \o
                              << <<"query_str", Len(base) + 1>>,
                                 <<"output_type", Len(base) + 2>> >>) >>
         /\ already_mapped' = [already_mapped EXCEPT ![n] = Len(base) + 3]
         /\ cursor' = cursor + 1
         /\ UNCHANGED <<pc, raised>>

\* lines 47-58: the root node rn of the arena base is replaced, given the
\* normalised query q
ReplaceRoot(n, base, rn, q) ==
    IF q.err # None
    THEN /\ raised' = q.err
         /\ pc' = "raised"
         /\ nodes' = base
         /\ UNCHANGED <<cursor, already_mapped>>
    ELSE /\ nodes' = base \o
                << ConstNode("String", q.out),
                   ConstNode("Type", <<base[rn].type>>),
                   OutputNode(base[rn].type, OpGqlRoot,
                              << <<"query_str", Len(base) + 1>>,
                                 <<"output_type", Len(base) + 2>> >>) >>
         /\ already_mapped' = [already_mapped EXCEPT ![n] = Len(base) + 3]
         /\ cursor' = cursor + 1
         /\ UNCHANGED <<pc, raised>>

\* _replace_with_merged_gql(node), lines 44-58, on the node rn of the arena base
ReplaceWithMergedGql(n, base, rn) ==
    IF ~ _is_root_node(base, rn)
    THEN /\ nodes' = base
         /\ already_mapped' = [already_mapped EXCEPT ![n] = rn]
         /\ cursor' = cursor + 1
         /\ UNCHANGED <<pc, raised>>
    ELSE ReplaceRoot(n, base, rn,
                     _normalize_query_str(AssembleQuery(_get_fragment(base, p, rn))))

\* a map step that stitches again for every node it visits
MapNode_stitches_per_node ==
    /\ pc = "map"
    /\ cursor <= Len(order)
    /\ IF MappedInputs(order[cursor]) # nodes[order[cursor]].inputs
       THEN ReplaceWithMergedGql(order[cursor],
                Append(nodes, [nodes[order[cursor]] EXCEPT !.inputs = MappedInputs(order[cursor])]),
                Len(nodes) + 1)
       ELSE ReplaceWithMergedGql(order[cursor], nodes, order[cursor])
    /\ p' = stitch(nodes, leaf_nodes)
    /\ stitch_runs' = stitch_runs + 1
    /\ UNCHANGED <<leaf_nodes, built, order, result, returned, normVars, typeVars>>

\* map_all_nodes visits the next node n: a node one of whose inputs was
\* replaced is built anew with the new inputs, then map_fn is applied
MapNode ==
    /\ pc = "map"
    /\ cursor <= Len(order)
    /\ IF MappedInputs(order[cursor]) # nodes[order[cursor]].inputs
       THEN ReplaceWithMergedGql(order[cursor],
                Append(nodes, [nodes[order[cursor]] EXCEPT !.inputs = MappedInputs(order[cursor])]),
                Len(nodes) + 1)
       ELSE ReplaceWithMergedGql(order[cursor], nodes, order[cursor])
    /\ UNCHANGED <<leaf_nodes, built, p, stitch_runs, order, result, returned, normVars, typeVars>>

\* a map that has visited every node and does not return
Return_never ==
    /\ pc = "map"
    /\ cursor > Len(order)
    /\ UNCHANGED vars

\* a map that returns the leaf nodes it was given
Return_unmapped_leaves ==
    /\ pc = "map"
    /\ cursor > Len(order)
    /\ result' = leaf_nodes
    /\ pc' = "done"
    /\ UNCHANGED <<nodes, leaf_nodes, built, p, stitch_runs, order, cursor, already_mapped,
                   raised, returned, normVars, typeVars>>

\* line 60: map_all_nodes returns the mapped leaf nodes
Return ==
    /\ pc = "map"
    /\ cursor > Len(order)
    /\ result' = [i \in 1..Len(leaf_nodes) |-> already_mapped[leaf_nodes[i]]]
    /\ pc' = "done"
    /\ UNCHANGED <<nodes, leaf_nodes, built, p, stitch_runs, order, cursor, already_mapped,
                   raised, returned, normVars, typeVars>>

Next ==
    \/ \E o \in ClientOps, a, b \in 1..Len(nodes) : AddNode(o, a, b)
    \/ \E a \in 1..Len(nodes), b \in 0..Len(nodes) : Translate(a, b)
    \/ Gate
    \/ Stitch
    \/ MapNode
    \/ Return

Spec == Init /\ [][Next]_vars

\* the caller applies the translation to the forest the last call returned
TranslateAgain ==
    /\ pc = "done"
    /\ Len(returned) < MaxCalls - 1
    /\ returned' = Append(returned, result)
    /\ leaf_nodes' = result
    /\ built' = Len(nodes)
    /\ pc' = "gate"
    /\ p' = <<>>
    /\ stitch_runs' = 0
    /\ order' = <<>>
    /\ cursor' = 0
    /\ already_mapped' = <<>>
    /\ result' = <<>>
    /\ UNCHANGED <<nodes, raised, normVars, typeVars>>

RepeatedNext ==
    \/ \E o \in ClientOps, a, b \in 1..Len(nodes) : AddNode(o, a, b)
    \/ \E a \in 1..Len(nodes), b \in 0..Len(nodes) : Translate(a, b)
    \/ Gate
    \/ Stitch
    \/ MapNode
    \/ Return
    \/ TranslateAgain

RepeatedSpec == Init /\ [][RepeatedNext]_vars

\* MapNode can be taken: its guard holds (each of its branches then moves
\* cursor or pc)
MapNodeEnabled == pc = "map" /\ cursor <= Len(order)

\* the call runs on: the body of apply_domain_op_gql_translation is
\* sequential code, so a step of it that can be taken is taken; the client
\* may stop building at any time.  The last conjunct is the weak fairness of
\* MapNode, written with its guard in place of ENABLED <<MapNode>>_vars.
TerminationSpec ==
    /\ Init
    /\ [][Next]_vars
    /\ WF_vars(Gate)
    /\ WF_vars(Stitch)
    /\ WF_vars(Return)
    /\ ([]<>(~ MapNodeEnabled) \/ []<><<MapNode>>_vars)

\* the gate, the stitching and the fragment synthesis over the forests
\* built from local, pass-through and mapped ops as well
FragmentNext ==
    \/ \E o \in FragmentOps, a, b \in 1..Len(nodes) : AddNode(o, a, b)
    \/ \E a \in 1..Len(nodes), b \in 0..Len(nodes) : Translate(a, b)
    \/ Gate
    \/ Stitch

FragmentSpec == Init /\ [][FragmentNext]_vars

(***************************************************************************)
(* weave_types: types, assign_type, merge_types.  A type is a record       *)
(* [kind, val, args]: val holds the literal of a Const and the keys of a   *)
(* TypedDict (in order), args the value type of a Const, the element type  *)
(* of a List, the property types of a TypedDict (aligned with its keys)    *)
(* and the members of a Union.                                             *)
(***************************************************************************)
BasicType(kind) == [kind |-> kind, val |-> <<>>, args |-> <<>>]
AnyType == BasicType("Any")
InvalidType == BasicType("Invalid")
NoneType == BasicType("None")
IntType == BasicType("Int")
StringType == BasicType("String")
Const(val_type, val) == [kind |-> "Const", val |-> <<val>>, args |-> <<val_type>>]
List(object_type) == [kind |-> "List", val |-> <<>>, args |-> <<object_type>>]
TypedDict(keys, property_types) ==
    [kind |-> "TypedDict", val |-> keys, args |-> property_types]
UnionType(members) == [kind |-> "Union", val |-> <<>>, args |-> members]

\* assign_type(src, dst): can a value of type src flow into a parameter
\* declared dst.  Any accepts everything and flows everywhere, Invalid
\* accepts nothing but itself; the two rules meet at (Any, Invalid), where
\* the answer is any_to_invalid.  A Union source needs every member
\* accepted; a Union destination needs one member that accepts; a Const
\* widens to its value type, and is accepted by a Const of the same value.
RECURSIVE assign_type(_, _)
\* an assign_type that accepts a Union source as soon as one member is accepted
assign_type_some_member(src, dst) ==
    IF src.kind = "Any" /\ dst.kind = "Invalid" THEN any_to_invalid
    ELSE IF dst.kind = "Any" \/ src.kind = "Any" THEN TRUE
    ELSE IF dst.kind = "Invalid" THEN src.kind = "Invalid"
    ELSE IF src.kind = "Union"
    THEN \E i \in 1..Len(src.args) : assign_type(src.args[i], dst)
    ELSE IF dst.kind = "Union"
    THEN \E i \in 1..Len(dst.args) : assign_type(src, dst.args[i])
    ELSE IF dst.kind = "Const"
    THEN /\ src.kind = "Const"
         /\ src.val = dst.val
         /\ assign_type(src.args[1], dst.args[1])
    ELSE IF src.kind = "Const" THEN assign_type(src.args[1], dst)
    ELSE IF dst.kind = "List"
    THEN src.kind = "List" /\ assign_type(src.args[1], dst.args[1])
    ELSE src.kind = dst.kind

assign_type(src, dst) ==
    IF src.kind = "Any" /\ dst.kind = "Invalid" THEN any_to_invalid
    ELSE IF dst.kind = "Any" \/ src.kind = "Any" THEN TRUE
    ELSE IF dst.kind = "Invalid" THEN src.kind = "Invalid"
    ELSE IF src.kind = "Union"
    THEN \A i \in 1..Len(src.args) : assign_type(src.args[i], dst)
    ELSE IF dst.kind = "Union"
    THEN \E i \in 1..Len(dst.args) : assign_type(src, dst.args[i])
    ELSE IF dst.kind = "Const"
    THEN /\ src.kind = "Const"
         /\ src.val = dst.val
         /\ assign_type(src.args[1], dst.args[1])
    ELSE IF src.kind = "Const" THEN assign_type(src.args[1], dst)
    ELSE IF dst.kind = "List"
    THEN src.kind = "List" /\ assign_type(src.args[1], dst.args[1])
    ELSE src.kind = dst.kind

\* the members of a union of the types of seq: the members of a Union in
\* seq stand for it (flattening), a type that is there already is skipped
RECURSIVE UnionMembers(_, _, _)
AddMember(acc, t) == IF InSeq(acc, t) THEN acc ELSE Append(acc, t)
RECURSIVE AddMembers(_, _, _)
AddMembers(acc, members, i) ==
    IF i > Len(members) THEN acc
    ELSE AddMembers(AddMember(acc, members[i]), members, i + 1)
UnionMembers(seq, i, acc) ==
    IF i > Len(seq) THEN acc
    ELSE IF seq[i].kind = "Union"
    THEN UnionMembers(seq, i + 1, AddMembers(acc, seq[i].args, 1))
    ELSE UnionMembers(seq, i + 1, AddMember(acc, seq[i]))

UnionOf(members) == IF Len(members) = 1 THEN members[1] ELSE UnionType(members)

\* a union that takes its members as they come
union_as_given(seq) == UnionType(seq)

\* union(*members): Union{T1..Tn}, deduplicated, nested unions flattened
union(seq) == UnionOf(UnionMembers(seq, 1, <<>>))

PropertyType(t, key) == t.args[CHOOSE i \in 1..Len(t.val) : t.val[i] = key]

\* the keys of keys that are not keys of t, in order
RECURSIVE KeysNotIn(_, _, _)
KeysNotIn(keys, t, i) ==
    IF i > Len(keys) THEN <<>>
    ELSE (IF InSeq(t.val, keys[i]) THEN <<>> ELSE <<keys[i]>>) \o KeysNotIn(keys, t, i + 1)

\* the keys of the merge of the TypedDicts a and b: a's, then b's new ones
MergedKeys(a, b) == a.val \o KeysNotIn(b.val, a, 1)

\* merge_types(a, b): two TypedDicts merge key by key, a shared key to the
\* merge of its two types; equal types merge to themselves; anything else
\* to their union
RECURSIVE merge_types(_, _)
\* a merge in which the second TypedDict's type of a shared key wins
MergedProperty_second_wins(a, b, key) ==
    IF InSeq(b.val, key) THEN PropertyType(b, key) ELSE PropertyType(a, key)

MergedProperty(a, b, key) ==
    IF InSeq(a.val, key) /\ InSeq(b.val, key)
    THEN merge_types(PropertyType(a, key), PropertyType(b, key))
    ELSE IF InSeq(a.val, key) THEN PropertyType(a, key)
    ELSE PropertyType(b, key)

merge_types(a, b) ==
    IF a.kind = "TypedDict" /\ b.kind = "TypedDict"
    THEN TypedDict(MergedKeys(a, b),
                   [i \in 1..Len(MergedKeys(a, b)) |-> MergedProperty(a, b, MergedKeys(a, b)[i])])
    ELSE IF a = b THEN a
    ELSE union(<<a, b>>)

(***************************************************************************)
(* The type system at work: assign_type is asked about a pair of types;    *)
(* merge_types is applied again and again to the type merged so far.       *)
(***************************************************************************)
\* the sequences of n distinct elements of set
DistinctSeqs(set, n) ==
    { f \in [1..n -> set] : \A i, j \in 1..n : i # j => f[i] # f[j] }

\* the types a Union of the model is made of
MemberTypes == {NoneType, IntType, StringType, Const(IntType, "5"), List(IntType)}
UnionTypes ==
    UNION { { UnionType(m) : m \in DistinctSeqs(MemberTypes, n) } : n \in 2..MaxMembers }

\* the types assign_type is asked about
AssignTypes ==
    {AnyType, InvalidType, NoneType, IntType, StringType}
    \cup {Const(IntType, "5"), Const(IntType, "6"), Const(StringType, "x")}
    \cup {List(IntType), List(StringType), List(Const(IntType, "5")),
          List(UnionType(<<IntType, StringType>>))}
    \cup UnionTypes

\* the types merge_types is applied to
MergeTypes ==
    { TypedDict(<<"a">>, <<IntType>>),
      TypedDict(<<"a">>, <<StringType>>),
      TypedDict(<<"b">>, <<IntType>>),
      TypedDict(<<"a", "b">>, <<IntType, StringType>>),
      TypedDict(<<"b", "a">>, <<NoneType, IntType>>),
      TypedDict(<<"a">>, <<TypedDict(<<"b">>, <<IntType>>)>>),
      TypedDict(<<"a">>, <<TypedDict(<<"c">>, <<StringType>>)>>),
      TypedDict(<<"a", "b", "c">>, <<StringType, StringType, StringType>>),
      IntType, StringType, NoneType, List(IntType),
      UnionType(<<IntType, StringType>>), UnionType(<<StringType, NoneType>>) }

AssignInit ==
    /\ tpc = "assign"
    /\ next_type \in AssignTypes
    /\ self_type \in AssignTypes
    /\ any_to_invalid \in BOOLEAN
    /\ assignable = FALSE
    /\ merged = <<>>
    /\ merged_with = <<>>
    /\ merges = 0

MergeInit ==
    /\ tpc = "merge"
    /\ merged \in MergeTypes
    /\ merged_with = <<>>
    /\ merges = 0
    /\ next_type = <<>>
    /\ self_type = <<>>
    /\ any_to_invalid = FALSE
    /\ assignable = FALSE

TypeInit ==
    /\ AssignInit \/ MergeInit
    /\ NormIdle
    /\ TransIdle

\* self_type.assign_type(next_type)
AssignType ==
    /\ tpc = "assign"
    /\ assignable' = assign_type(next_type, self_type)
    /\ tpc' = "assigned"
    /\ UNCHANGED <<next_type, self_type, any_to_invalid, merged, merged_with, merges,
                   normVars, transVars>>

\* merged = merge_types(merged, t)
MergeWith(t) ==
    /\ tpc = "merge"
    /\ merges < MaxMerges
    /\ merged' = merge_types(merged, t)
    /\ merged_with' = <<merged, t>>
    /\ merges' = merges + 1
    /\ UNCHANGED <<tpc, next_type, self_type, assignable, any_to_invalid, normVars, transVars>>

TypeNext ==
    \/ AssignType
    \/ \E t \in MergeTypes : MergeWith(t)

TypeSpec == TypeInit /\ [][TypeNext]_vars

(***************************************************************************)
(* Properties of the translation.                                          *)
(***************************************************************************)
\* the nodes of the forest: the leaf nodes and, transitively, their inputs
RECURSIVE Closure(_, _, _)
Closure(arena, set, rounds) ==
    IF rounds = 0 THEN set
    ELSE Closure(arena,
                 set \cup ({ arena[n].inputs[i][2] : n \in set, i \in 1..2 } \ {0}),
                 rounds - 1)
Padded(arena) ==
    [n \in 1..Len(arena) |->
        [arena[n] EXCEPT !.inputs = @ \o [i \in 1..(2 - Len(@)) |-> <<"", 0>>]]]
Forest(arena, leafs) ==
    Closure(Padded(arena), { leafs[i] : i \in 1..Len(leafs) }, Len(arena))

\* the op of node n carries a remote-query plugin with is_root = true
HasRootPlugin(arena, n) ==
    /\ arena[n].kind = "Output"
    /\ \E i \in 1..Len(Registry) :
          /\ Registry[i].name = arena[n].op
          /\ Registry[i].plugins # NoPlugin
          /\ Registry[i].plugins.is_root
HasPlugin(arena, n) ==
    /\ arena[n].kind = "Output"
    /\ \E i \in 1..Len(Registry) :
          Registry[i].name = arena[n].op /\ Registry[i].plugins # NoPlugin

OriginalForest == Forest(nodes, leaf_nodes)
OriginalRoots == { n \in OriginalForest : HasRootPlugin(nodes, n) }

\* C1 (no-root no-op): called on a forest none of whose nodes is a root
\* node, the translation returns the very forest it was given; it builds no
\* node, never stitches and maps nothing.
C1_NoRootNoOp ==
    (pc = "done" /\ OriginalRoots = {}) =>
        /\ result = leaf_nodes
        /\ Len(nodes) = built
        /\ stitch_runs = 0
        /\ p = <<>>
        /\ order = <<>>

\* the translation returned a root-free forest that holds a node whose op
\* carries a (non-root) plugin, below a pass-through
C1_Witness ==
    /\ pc = "done"
    /\ OriginalRoots = {}
    /\ \E n \in OriginalForest : HasPlugin(nodes, n)
    /\ \E n \in OriginalForest : nodes[n].op = OpLimit

\* node g is a call of gqlroot-wbgqlquery that replaces the root r
IsMergedQueryNode(g, r) ==
    /\ nodes[g].kind = "Output"
    /\ nodes[g].op = OpGqlRoot
    /\ nodes[g].type = nodes[r].type
    /\ Len(nodes[g].inputs) = 2
    /\ nodes[g].inputs[1][1] = "query_str"
    /\ nodes[nodes[g].inputs[1][2]].kind = "Const"
    /\ nodes[nodes[g].inputs[1][2]].type = "String"
    /\ _normalize_query_str(nodes[nodes[g].inputs[1][2]].val) =
           [err |-> None, out |-> nodes[nodes[g].inputs[1][2]].val]
    /\ nodes[g].inputs[2][1] = "output_type"
    /\ nodes[nodes[g].inputs[2][2]].kind = "Const"
    /\ nodes[nodes[g].inputs[2][2]].type = "Type"
    /\ nodes[nodes[g].inputs[2][2]].val = <<nodes[r].type>>

\* C2 (rewrite): when the translation of a forest with a root node returns,
\* every root node of the forest is mapped to a new call of
\* gqlroot-wbgqlquery of the root's type whose only inputs are the constants
\* query_str (a normalised query string) and output_type (the root's type),
\* and no root node of the forest is left in the forest returned.
C2_RootsReplaced ==
    (pc = "done" /\ OriginalRoots # {}) =>
        /\ \A r \in OriginalRoots :
              /\ already_mapped[r] > built
              /\ IsMergedQueryNode(already_mapped[r], r)
        /\ Forest(nodes, result) \cap OriginalRoots = {}

\* the translation returned for a root that has another root as its input
C2_Witness ==
    /\ pc = "done"
    /\ \E r1, r2 \in OriginalRoots :
          /\ nodes[r2].inputs[1][2] = r1
          /\ IsMergedQueryNode(already_mapped[r1], r1)
          /\ IsMergedQueryNode(already_mapped[r2], r2)

\* the constant query string of the node that replaces the root r
QueryStrOf(r) == nodes[nodes[already_mapped[r]].inputs[1][2]].val

\* the node _replace_with_merged_gql saw for the root r: r itself, or r
\* built anew with its replaced inputs (the node before the three new ones)
SeenAs(r) ==
    IF MappedInputs(r) = nodes[r].inputs THEN r ELSE already_mapped[r] - 3

\* the forest is runName(projectRuns(p)) for the constant project p
EndToEndScenario ==
    /\ Len(leaf_nodes) = 1
    /\ nodes[leaf_nodes[1]].op = OpRunName
    /\ nodes[nodes[leaf_nodes[1]].inputs[1][2]].op = OpProjectRuns
    /\ nodes[nodes[nodes[leaf_nodes[1]].inputs[1][2]].inputs[1][2]].kind = "Const"

\* C3 (end to end): compiling runName(projectRuns(p)) replaces projectRuns(p)
\* by a node whose query string is query WeavePythonCG { runs { name } };
\* and the query string of every replaced root is the normalisation of
\* query WeavePythonCG { <the root's fragment> }.
C3_EndToEnd ==
    pc = "done" =>
        /\ EndToEndScenario =>
              /\ QueryStrOf(nodes[leaf_nodes[1]].inputs[1][2]) =
                     <<"query", "WeavePythonCG", "{", "runs", "{", "name", "}", "}">>
              /\ nodes[result[1]].op = OpRunName
              /\ nodes[result[1]].inputs[1][2] =
                     already_mapped[nodes[leaf_nodes[1]].inputs[1][2]]
        /\ \A r \in OriginalRoots :
              QueryStrOf(r) =
                  _normalize_query_str(
                      AssembleQuery(_get_fragment(nodes, p, SeenAs(r)))).out

\* runName(projectRuns(p)) was compiled
C3_Witness == pc = "done" /\ EndToEndScenario /\ result # leaf_nodes

\* node f with every input l replaced by r
Bypass(arena, f, l, r) ==
    [arena EXCEPT ![f].inputs =
        [i \in 1..Len(@) |-> <<@[i][1], IF @[i][2] = l THEN r ELSE @[i][2]>>]]

\* r -> l(r) -> f(l(r)): the root r is consumed by the pass-through l alone,
\* which is consumed by f alone, whose op carries a plugin
PassThroughChain(r, l, f) ==
    /\ HasRootPlugin(nodes, r)
    /\ nodes[l].op = OpLimit
    /\ HasPlugin(nodes, f)
    /\ Len(p[r]) = 1 /\ p[r][1].node = l
    /\ Len(p[l]) = 1 /\ p[l][1].node = f

\* the fragments of the consumers of n, in the order recorded
RECURSIVE ConsumerFragments(_, _)
ConsumerFragments(n, i) ==
    IF i > Len(p[n]) THEN <<>>
    ELSE _get_fragment(nodes, p, p[n][i].node) \o ConsumerFragments(n, i + 1)

\* the stitching has just run: p is the stitched graph of the forest
JustStitched == pc = "map" /\ cursor = 1

\* C4 (pass-through transparency): the fragment of a root r in a chain
\* r -> limit(r) -> f(limit(r)) is the fragment r has in the graph where f
\* consumes r directly; and the fragment of a pass-through node is the
\* concatenation of its consumers' fragments, with no text of its own.
C4_PassThroughTransparent ==
    JustStitched =>
        /\ \A r, l, f \in OriginalForest :
              PassThroughChain(r, l, f) =>
                  _get_fragment(nodes, p, r) =
                      _get_fragment(Bypass(nodes, f, l, r),
                                    stitch(Bypass(nodes, f, l, r), leaf_nodes), r)
        /\ \A n \in OriginalForest :
              nodes[n].op = OpLimit =>
                  _get_fragment(nodes, p, n) = ConsumerFragments(n, 1)

\* such a chain was stitched, from projectRuns through limit to runName
C4_Witness ==
    /\ JustStitched
    /\ \E r, l, f \in OriginalForest :
          /\ PassThroughChain(r, l, f)
          /\ nodes[r].op = OpProjectRuns
          /\ nodes[f].op = OpRunName
          /\ _get_fragment(nodes, p, r) = <<"runs", "{", "name", "}">>

\* the uses of n in the forest: <<consumer, parameter name>> for every
\* input of a call of the forest that is n
ParamNames ==
    UNION { { Registry[i].params[j] : j \in 1..Len(Registry[i].params) } :
              i \in 1..Len(Registry) }
Consumers(n) ==
    { u \in OriginalForest \X ParamNames :
        \E i \in 1..Len(nodes[u[1]].inputs) :
            nodes[u[1]].inputs[i] = <<u[2], n>> }

\* C8 (stitch completeness): after stitching, the calls recorded for every
\* OutputNode n of the forest hold exactly one entry per call of the forest
\* and input position whose input is n, with that call as node and the
\* parameter's name as input_name; the list is empty when n has no consumer.
C8_StitchComplete ==
    JustStitched =>
        \A n \in OriginalForest :
            nodes[n].kind = "Output" =>
                /\ { <<get_result(p, n)[i].node, get_result(p, n)[i].input_name>> :
                        i \in 1..Len(get_result(p, n)) } = Consumers(n)
                /\ Len(get_result(p, n)) = Cardinality(Consumers(n))

\* a node consumed twice by one call (under two parameters), a node with
\* two consumers and a node with none were stitched
C8_Witness ==
    /\ JustStitched
    /\ \E n \in OriginalForest :
          /\ Len(p[n]) = 2
          /\ p[n][1].node = p[n][2].node
          /\ p[n][1].input_name # p[n][2].input_name
    /\ \E n \in OriginalForest : nodes[n].kind = "Output" /\ p[n] = <<>>

\* the op name matches the pass-through whitelist of _get_fragment
Whitelisted(name) ==
    \/ name[Len(name)] \in {"offset", "limit", "index", "__getitem__", "concat",
                            "contains", "list", "flatten", "dropna"}
    \/ name = <<"list", "-", "createIndexCheckpointTag">>

\* the registry entry of the op of node n
OpOf(n) == Registry[CHOOSE i \in 1..Len(Registry) : Registry[i].name = nodes[n].op]

\* the op node n resolves to: the base op, for the mapped form of an op
ResolvedOpOf(n) ==
    IF OpOf(n).mapped
    THEN Registry[CHOOSE i \in 1..Len(Registry) : Registry[i].name = OpOf(n).derived_from]
    ELSE OpOf(n)

\* the op of node n carries a plugin and is no pass-through
PluginNode(n) ==
    /\ nodes[n].kind = "Output"
    /\ ResolvedOpOf(n).plugins # NoPlugin
    /\ ~ Whitelisted(ResolvedOpOf(n).name)

\* the op of node n is a pass-through
PassThroughNode(n) == nodes[n].kind = "Output" /\ Whitelisted(ResolvedOpOf(n).name)

\* the op of node n is local: no plugin, no pass-through
LocalNode(n) ==
    /\ nodes[n].kind = "Output"
    /\ ResolvedOpOf(n).plugins = NoPlugin
    /\ ~ Whitelisted(ResolvedOpOf(n).name)

\* the inputs of node n that are ConstNodes, as <<name, value>>
ConstInputsOf(n) ==
    { <<nodes[n].inputs[i][1], nodes[nodes[n].inputs[i][2]].val>> :
        i \in { j \in 1..Len(nodes[n].inputs) : nodes[nodes[n].inputs[j][2]].kind = "Const" } }

SeqToSet(seq) == { seq[i] : i \in 1..Len(seq) }

\* C14 (fragment of a plugin node): the fragment of a node whose op carries
\* a plugin and is no pass-through is query_fn(const inputs, child
\* fragment): the const inputs are exactly the inputs that are ConstNodes,
\* by name, and the child fragment is the fragments of the recorded calls,
\* one per call, in the order they were recorded.
C14_PluginFragment ==
    JustStitched =>
        \A n \in OriginalForest :
            PluginNode(n) =>
                /\ SeqToSet(ConstInputVals(nodes, nodes[n].inputs, 1)) = ConstInputsOf(n)
                /\ Len(ConstInputVals(nodes, nodes[n].inputs, 1)) = Cardinality(ConstInputsOf(n))
                /\ _get_fragment(nodes, p, n) =
                       QueryFn(ResolvedOpOf(n).plugins.query_fn,
                               ConstInputVals(nodes, nodes[n].inputs, 1),
                               ConsumerFragments(n, 1))

\* a plugin node with a ConstNode input and two recorded calls whose
\* fragments differ was stitched
C14_Witness ==
    /\ JustStitched
    /\ \E n \in OriginalForest :
          /\ PluginNode(n)
          /\ Len(p[n]) = 2
          /\ _get_fragment(nodes, p, p[n][1].node) # _get_fragment(nodes, p, p[n][2].node)
          /\ ConstInputsOf(n) # {}

\* the fragments of the recorded calls of n whose node is not local, in order
RECURSIVE NonLocalConsumerFragments(_, _)
NonLocalConsumerFragments(n, i) ==
    IF i > Len(p[n]) THEN <<>>
    ELSE (IF LocalNode(p[n][i].node) THEN <<>> ELSE _get_fragment(nodes, p, p[n][i].node))
         \o NonLocalConsumerFragments(n, i + 1)

\* C15 (pruning): the fragment of a node whose op carries no plugin and is
\* no pass-through is empty, and nothing comes into the fragment of any
\* node through it: every fragment is made of the fragments of the
\* consumers that are not such nodes, whatever consumes those nodes.
C15_LocalOpsPrune ==
    JustStitched =>
        \A n \in OriginalForest :
            /\ LocalNode(n) => _get_fragment(nodes, p, n) = <<>>
            /\ PassThroughNode(n) =>
                   _get_fragment(nodes, p, n) = NonLocalConsumerFragments(n, 1)
            /\ PluginNode(n) =>
                   _get_fragment(nodes, p, n) =
                       QueryFn(ResolvedOpOf(n).plugins.query_fn,
                               ConstInputVals(nodes, nodes[n].inputs, 1),
                               NonLocalConsumerFragments(n, 1))

\* a root consumed by a local op, itself consumed by an op with a plugin,
\* was stitched: the root's fragment has no child
C15_Witness ==
    /\ JustStitched
    /\ \E r, n, f \in OriginalForest :
          /\ HasRootPlugin(nodes, r)
          /\ LocalNode(n)
          /\ PluginNode(f)
          /\ Len(p[r]) = 1 /\ p[r][1].node = n
          /\ Len(p[n]) = 1 /\ p[n][1].node = f
          /\ _get_fragment(nodes, p, f) = <<"name">>
          /\ _get_fragment(nodes, p, r) = <<"runs", "{", "}">>

\* the text the query_fn of the plugin of runs-index puts around its child
IndexText == QueryFn("index", <<>>, <<>>)

\* C16 (pass-through before plugin): the fragment of a node whose op is on
\* the pass-through list is the concatenation of its consumers' fragments,
\* plugin or no plugin, root plugin included; the plugin's query_fn is not
\* called, so nothing it would write is in any fragment of the forest.
C16_PassThroughBeforePlugin ==
    JustStitched =>
        \A n \in OriginalForest :
            /\ PassThroughNode(n) =>
                   _get_fragment(nodes, p, n) = ConsumerFragments(n, 1)
            /\ nodes[n].kind = "Output" =>
                   SeqToSet(_get_fragment(nodes, p, n)) \cap SeqToSet(IndexText) \subseteq {"{", "}"}

\* runs-index, a pass-through whose op carries a root plugin, was stitched
\* between project-runs and run-name
C16_Witness ==
    /\ JustStitched
    /\ \E r, n, f \in OriginalForest :
          /\ nodes[r].op = OpProjectRuns
          /\ nodes[n].op = OpRunsIndex
          /\ nodes[f].op = OpRunName
          /\ OpOf(n).plugins # NoPlugin /\ OpOf(n).plugins.is_root
          /\ HasRootPlugin(nodes, n)
          /\ Len(p[r]) = 1 /\ p[r][1].node = n
          /\ Len(p[n]) = 1 /\ p[n][1].node = f
          /\ _get_fragment(nodes, p, n) = <<"name">>
          /\ _get_fragment(nodes, p, r) = <<"runs", "{", "name", "}">>

\* node n is a call of the mapped form of an op
MappedNode(n) == nodes[n].kind = "Output" /\ OpOf(n).mapped

\* the graph in which node n calls the scalar form of its op
ScalarForm(n) == [nodes EXCEPT ![n].op = OpOf(n).derived_from]

\* the plugin lookup and the pass-through test of the fragment synthesis
\* answer for the mapped form at n what they answer for the scalar form
FragmentTestsLikeBase(n) ==
    /\ _get_gql_plugin(FragmentOpDef(nodes[n].op))
           = _get_gql_plugin(FragmentOpDef(OpOf(n).derived_from))
    /\ is_passthrough(FragmentOpDef(nodes[n].op))
           = is_passthrough(FragmentOpDef(OpOf(n).derived_from))

\* the root test answers for the mapped form at n what it answers for the
\* scalar form
RootTestLikeBase(n) == _is_root_node(nodes, n) = _is_root_node(ScalarForm(n), n)

\* C17 (mapped ops): for a call of the mapped form of an op, the plugin
\* lookup, the pass-through test and the root test give the answer they give
\* for the scalar form of the op.
C17_MappedLikeBase ==
    \A n \in 1..Len(nodes) :
        MappedNode(n) => FragmentTestsLikeBase(n) /\ RootTestLikeBase(n)

\* the stitched graph of the forest as it was handed to the translation
OriginalStitch == stitch(SubSeq(nodes, 1, built), leaf_nodes)

\* where the call stands, against how often stitching has run and on what
PassOrder ==
    /\ stitch_runs <= 1
    /\ pc \in {"build", "gate", "stitch"} => stitch_runs = 0
    /\ pc \in {"gate", "stitch"} => Len(nodes) = built
    /\ pc = "stitch" => OriginalRoots # {}
    /\ pc \in {"map", "raised"} =>
          stitch_runs = 1 /\ OriginalRoots # {} /\ p = OriginalStitch
    /\ pc = "done" =>
          /\ stitch_runs = (IF OriginalRoots # {} THEN 1 ELSE 0)
          /\ \A r \in OriginalRoots :
                QueryStrOf(r) =
                    _normalize_query_str(
                        AssembleQuery(_get_fragment(nodes, OriginalStitch, SeenAs(r)))).out

\* a step that stitches is taken after the gate found a root, on the forest
\* as it was handed over
StitchStep ==
    stitch_runs' # stitch_runs =>
        /\ pc = "stitch"
        /\ OriginalRoots # {}
        /\ Len(nodes) = built
        /\ p' = stitch(nodes, leaf_nodes)

\* a step that adds nodes to the translated forest (a fragment was
\* synthesized, or a node was built anew) is taken after the stitching and
\* leaves the stitched graph as it is
RewriteStep ==
    (pc # "build" /\ nodes' # nodes) =>
        pc = "map" /\ stitch_runs = 1 /\ stitch_runs' = 1 /\ p' = p

\* C18 (pass order): in one translation call the gate runs first over the
\* whole forest; stitching runs once, only if the gate found a root, on the
\* forest as handed over and before any fragment is synthesized; the
\* stitched graph is then left alone and the query of every root is made
\* from it.
C18_PassOrder == [] PassOrder /\ [][StitchStep /\ RewriteStep]_vars

\* the translation returned after replacing two roots, one the input of
\* the other, having stitched once
C18_Witness ==
    /\ pc = "done"
    /\ stitch_runs = 1
    /\ p = OriginalStitch
    /\ \E r1, r2 \in OriginalRoots :
          /\ r1 # r2
          /\ already_mapped[r1] > built
          /\ already_mapped[r2] > built
          /\ SeenAs(r2) # r2

\* every call recorded against a node is by a node of the forest built
\* after it: following the recorded calls never comes back to a node
CallsGoForward ==
    \A n \in DOMAIN p :
        \A i \in 1..Len(p[n]) : p[n][i].node > n /\ p[n][i].node <= built

\* C22 (termination): the forest being finite and acyclic, the recursion of
\* the fragment synthesis through the recorded calls is well-founded, and
\* every call of apply_domain_op_gql_translation returns or raises.
C22_Terminates ==
    /\ [] CallsGoForward
    /\ (pc = "gate") ~> (pc \in {"done", "raised"})

\* the translation returned after synthesizing the fragment of a root
\* through a consumer and a consumer of that consumer
C22_Witness ==
    /\ pc = "done"
    /\ \E r \in OriginalRoots :
          /\ already_mapped[r] > built
          /\ \E i \in 1..Len(p[r]) :
                /\ p[p[r][i].node] # <<>>
                /\ _get_fragment(nodes, p, p[p[r][i].node][1].node) # <<>>

\* a call of gqlroot-wbgqlquery is no root node
GqlRootIsNoRoot == ~ HasRootPlugin(<<OutputNode("Any", OpGqlRoot, <<>>)>>, 1)

\* no node of the forest returned has an op with a root plugin
NoRootReturned == \A n \in Forest(nodes, result) : ~ HasRootPlugin(nodes, n)

\* a call on the forest the call before returned has returned that very
\* forest, having added no node and stitched nothing
ReturnedUnchanged ==
    /\ result = returned[Len(returned)]
    /\ result = leaf_nodes
    /\ Len(nodes) = built
    /\ stitch_runs = 0

\* C23 (idempotence): gqlroot-wbgqlquery carrying no root plugin, the
\* forest the translation returns holds no root node, and the translation
\* applied to the forest it returned returns that forest unchanged.
C23_Idempotent ==
    (pc = "done" /\ GqlRootIsNoRoot) =>
        /\ NoRootReturned
        /\ returned # <<>> => ReturnedUnchanged

\* the translation has returned a second time, on a forest in which the
\* first call had replaced a root that had a root among its inputs
C23_Witness ==
    /\ pc = "done"
    /\ GqlRootIsNoRoot
    /\ Len(returned) = 1
    /\ result = returned[1]
    /\ \E i \in 1..Len(result) :
          /\ nodes[result[i]].op = OpGqlRoot
          /\ result[i] > Len(Leaves) + 2

(***************************************************************************)
(* Properties of the normalisation.                                        *)
(***************************************************************************)
\* what decides whether two selections merge: the head of a selection
Key(s) == [kind |-> s.kind, alias |-> s.alias, name |-> s.name,
           arguments |-> s.arguments, type_condition |-> s.type_condition]
Keys(sels) == [i \in 1..Len(sels) |-> Key(sels[i])]
Children(s) == s.selection_set.selections

\* doc, a parse result, is one operation definition; its selections
IsOneOperation(doc) ==
    /\ doc.ok
    /\ Len(doc.val) = 1
    /\ doc.val[1].kind = "OperationDefinition"
SelectionsOf(doc) == doc.val[1].selections

\* the first normalisation has zipped the document without raising
FirstZipDone == pass = 1 /\ npc \in {"print", "done"}
\* the normalisation has returned nothing: it has yet to parse or zip, or
\* it has raised one of errs
NothingReturned(errs) ==
    /\ norm_out = <<>>
    /\ \/ npc \in {"parse", "zip"} /\ norm_err = None
       \/ npc = "raised" /\ norm_err \in errs

\* C5 (merge idempotence): normalising a string that _normalize_query_str
\* returned never raises, returns the very same string, and its zip step
\* leaves the parsed document as it was.
C5_MergeIdempotence ==
    pass = 2 =>
        /\ npc # "raised"
        /\ npc = "print" => gql_doc = Parse(query_str).val
        /\ npc = "done" => norm_out = first_out

\* a second normalisation finished on a text the first one had changed
C5_Witness ==
    /\ pass = 2
    /\ npc = "done"
    /\ first_out # original
    /\ Len(first_out) >= 8

\* the indices of the siblings of sels that merge with sels[i]
MergeClass(sels, i) == { k \in 1..Len(sels) : Key(sels[k]) = Key(sels[i]) }

PairwiseNonMergeable(sels) ==
    \A i, j \in 1..Len(sels) : i # j => Key(sels[i]) # Key(sels[j])

\* each selection of sels with its own child selection set zipped
EachZipped(sels) ==
    [i \in 1..Len(sels) |-> _zip_selection_set(<<sels[i]>>).selections[1]]

\* the number of distinct heads among the first n selections of sels
DistinctBefore(sels, n) == Cardinality({ Key(sels[k]) : k \in 1..n })

\* sels[i] and sels[j] are two fields that merge with each other and with no
\* other sibling, and their children are pairwise non-mergeable
MergeablePair(sels, i, j) ==
    /\ i < j
    /\ sels[i].kind = "Field"
    /\ MergeClass(sels, i) = {i, j}
    /\ PairwiseNonMergeable(Children(sels[i]) \o Children(sels[j]))

\* in is zipped to out as C6 says
MergedAsPairs(in, out) ==
    \A i, j \in 1..Len(in) :
        MergeablePair(in, i, j) =>
            /\ DistinctBefore(in, i) <= Len(out)
            /\ Key(out[DistinctBefore(in, i)]) = Key(in[i])
            /\ Children(out[DistinctBefore(in, i)]) =
                   EachZipped(Children(in[i]) \o Children(in[j]))
            /\ \A q \in 1..Len(out) :
                  q # DistinctBefore(in, i) => Key(out[q]) # Key(in[i])

MergedAsPairsIn(doc, out) ==
    IsOneOperation(doc) => MergedAsPairs(SelectionsOf(doc), out)

\* C6 (merging mergeable siblings): two sibling fields with the same name,
\* alias and arguments whose children are pairwise non-mergeable come out as
\* one selection, at the position of the first, whose children are the
\* first's children followed by the second's (each zipped in itself), and no
\* other sibling of the result has their head.
C6_MergeableSiblings ==
    FirstZipDone => MergedAsPairsIn(Parse(original), gql_doc[1].selections)

HasMergedPair(in) ==
    \E i, j \in 1..Len(in) :
        /\ MergeablePair(in, i, j)
        /\ i > 1
        /\ Children(in[i]) # <<>>
        /\ Children(in[j]) # <<>>

HasMergedPairIn(doc) == IsOneOperation(doc) /\ HasMergedPair(SelectionsOf(doc))

\* such a pair was merged: both have children, and another selection comes first
C6_Witness == FirstZipDone /\ HasMergedPairIn(Parse(original))

\* the distinct elements of a sequence, in the order of their first occurrence
RECURSIVE FirstSeen(_, _, _)
FirstSeen(seq, i, acc) ==
    IF i > Len(seq) THEN acc
    ELSE IF \E k \in 1..Len(acc) : acc[k] = seq[i] THEN FirstSeen(seq, i + 1, acc)
    ELSE FirstSeen(seq, i + 1, Append(acc, seq[i]))

\* the children of the selections of sels that have the head key, in order
RECURSIVE ChildrenOfClass(_, _, _)
ChildrenOfClass(sels, key, i) ==
    IF i > Len(sels) THEN <<>>
    ELSE (IF Key(sels[i]) = key THEN Children(sels[i]) ELSE <<>>)
         \o ChildrenOfClass(sels, key, i + 1)

\* out keeps the distinct heads of in in first-seen order, at every depth
RECURSIVE FirstSeenOrder(_, _)
FirstSeenOrder(in, out) ==
    /\ Keys(out) = FirstSeen(Keys(in), 1, <<>>)
    /\ \A m \in 1..Len(out) :
          FirstSeenOrder(ChildrenOfClass(in, Key(out[m]), 1), Children(out[m]))

FirstSeenOrderIn(doc, out) ==
    IsOneOperation(doc) => FirstSeenOrder(SelectionsOf(doc), out)

\* C7 (first-seen order): in every selection set of the normalised document
\* the distinct selections stand in the order of their first occurrence in
\* the input; a later mergeable occurrence never moves the one kept.
C7_FirstSeenOrder ==
    FirstZipDone => FirstSeenOrderIn(Parse(original), gql_doc[1].selections)

LaterOccurrenceMerged(in, out) ==
    /\ Len(in) >= 3
    /\ Len(out) = 2
    /\ Key(in[1]) # Key(in[2])
    /\ Key(in[3]) = Key(in[1])

\* a later occurrence of the first selection was merged past a distinct one
C7_Witness ==
    /\ FirstZipDone
    /\ IsOneOperation(Parse(original))
    /\ LaterOccurrenceMerged(SelectionsOf(Parse(original)), gql_doc[1].selections)

\* doc parses to something else than exactly one operation definition
NotOneOperation(doc) == doc.ok /\ ~ IsOneOperation(doc)

\* C9 (one operation only): a document with more than one top-level
\* definition, or whose single definition is not an operation, raises
\* ValueError in _zip_gql_doc; no query string is ever returned for it.
C9_OneOperationOnly ==
    (pass = 1 /\ ~ NothingReturned({"ValueError"})) =>
        ~ NotOneOperation(Parse(original))

\* the zip raised on a two-definition document that starts with a fragment
\* definition
C9_Witness ==
    /\ npc = "raised"
    /\ norm_err = "ValueError"
    /\ Len(gql_doc) = 2
    /\ gql_doc[1].kind = "FragmentDefinition"

RECURSIVE HasUnsupported(_)
HasUnsupported(sels) ==
    \E i \in 1..Len(sels) :
        \/ sels[i].kind \notin {"Field", "InlineFragment"}
        \/ HasUnsupported(Children(sels[i]))

HasUnsupportedIn(doc) == IsOneOperation(doc) /\ HasUnsupported(SelectionsOf(doc))

\* C10 (unsupported selections are fatal): a document holding, at any
\* depth, a selection that is neither a field nor an inline fragment never
\* gets past the zip: normalisation raises and returns nothing.
C10_UnsupportedSelectionFatal ==
    (pass = 1 /\ ~ NothingReturned({"ValueError", "AttributeError"})) =>
        ~ HasUnsupportedIn(Parse(original))

UnsupportedInMergedChildren(in) ==
    /\ \A i \in 1..Len(in) : in[i].kind \in {"Field", "InlineFragment"}
    /\ \E i, j \in 1..Len(in) :
          /\ i < j
          /\ should_merge(in[j], in[i])
          /\ HasUnsupported(Children(in[j]))
          /\ ~ HasUnsupported(Children(in[i]))

\* the zip raised ValueError on a fragment spread that sits in the children
\* of a selection merged into an earlier sibling
C10_Witness ==
    /\ npc = "raised"
    /\ norm_err = "ValueError"
    /\ Len(gql_doc) = 1
    /\ gql_doc[1].kind = "OperationDefinition"
    /\ UnsupportedInMergedChildren(gql_doc[1].selections)

\* the sibling lists of a selection list: the list itself and the sibling
\* lists of the children of each of its selections
RECURSIVE SiblingLists(_)
SiblingLists(sels) ==
    {sels} \cup UNION { SiblingLists(Children(sels[i])) : i \in 1..Len(sels) }

\* two fields with the same name, the same alias (absent or equal) and the
\* same arguments position by position, or two inline fragments with the
\* same type-condition name
SameSelection(s1, s2) ==
    \/ /\ s1.kind = "Field" /\ s2.kind = "Field"
       /\ s1.name = s2.name
       /\ (s1.alias = None) = (s2.alias = None)
       /\ s1.alias # None => s1.alias = s2.alias
       /\ Len(s1.arguments) = Len(s2.arguments)
       /\ \A k \in 1..Len(s1.arguments) :
             /\ s1.arguments[k][1] = s2.arguments[k][1]
             /\ s1.arguments[k][2] = s2.arguments[k][2]
    \/ /\ s1.kind = "InlineFragment" /\ s2.kind = "InlineFragment"
       /\ s1.type_condition # None /\ s2.type_condition # None
       /\ s1.type_condition = s2.type_condition

\* the first loop of _zip_selection_set made one selection of the siblings
OneLeft(r) == r.err = None /\ Len(r.selections) = 1
MergedByZip(s1, s2) == OneLeft(MergeSiblings(<<s1, s2>>, 1, <<>>))

\* the siblings of sels that are the same selection as sels[i]
SameAs(sels, i) == {i} \cup { k \in 1..Len(sels) : SameSelection(sels[k], sels[i]) }

\* in every sibling list of in the loop merges two siblings exactly when
\* they are the same selection
MergedIffSame(in) ==
    \A sels \in SiblingLists(in) :
        \A i, j \in 1..Len(sels) :
            i < j => (MergedByZip(sels[i], sels[j]) <=> SameSelection(sels[i], sels[j]))

MergedIffSameIn(doc) == IsOneOperation(doc) => MergedIffSame(SelectionsOf(doc))

\* out has one selection for each group of same selections of in
OnePerGroup(in, out) ==
    Len(out) = Cardinality({ SameAs(in, i) : i \in 1..Len(in) })

OnePerGroupIn(doc, out) == IsOneOperation(doc) => OnePerGroup(SelectionsOf(doc), out)

\* C19 (mergeability): two siblings are merged if and only if they are two
\* fields with the same name, the same alias (both absent, or equal) and the
\* same argument list position by position, or two inline fragments with the
\* same type-condition name; so a field and an inline fragment, and fields
\* whose arguments differ only in order, stay two selections, and the
\* zipped document has one selection for each group of such siblings.
C19_MergedIffSame ==
    /\ (pass = 1 /\ npc # "parse") => MergedIffSameIn(Parse(original))
    /\ FirstZipDone => OnePerGroupIn(Parse(original), gql_doc[1].selections)

\* the two fields of in have the same arguments in another order
ArgumentsSwapped(in) ==
    /\ Len(in) = 2
    /\ in[1].name = in[2].name
    /\ Len(in[1].arguments) = 2
    /\ in[2].arguments = <<in[1].arguments[2], in[1].arguments[1]>>
    /\ in[1].arguments # in[2].arguments

\* two fields whose arguments differ only in order were zipped and are both
\* in the result
C19_Witness ==
    /\ FirstZipDone
    /\ IsOneOperation(Parse(original))
    /\ ArgumentsSwapped(SelectionsOf(Parse(original)))
    /\ Len(gql_doc[1].selections) = 2

\* no two siblings of sels are the same selection, at any depth
NormalForm(sels) ==
    \A sibs \in SiblingLists(sels) :
        \A i, j \in 1..Len(sibs) : i # j => ~ SameSelection(sibs[i], sibs[j])

\* C20 (normal form): when _zip_selection_set has returned, no two siblings
\* are mergeable in the selection set returned nor in any selection set
\* nested in it, at any depth, the children put together from two merged
\* siblings included.
C20_NormalForm ==
    npc \in {"print", "done"} => NormalForm(gql_doc[1].selections)

\* the first two selections of in merge, and so do a child of the first and
\* a child of the second
MergeableAtTwoDepths(in) ==
    /\ Len(in) = 2
    /\ SameSelection(in[1], in[2])
    /\ \E i \in 1..Len(Children(in[1])), j \in 1..Len(Children(in[2])) :
          /\ SameSelection(Children(in[1])[i], Children(in[2])[j])
          /\ Children(Children(in[1])[i]) # <<>>

\* such a document was zipped: one selection is left, with one child
C20_Witness ==
    /\ FirstZipDone
    /\ IsOneOperation(Parse(original))
    /\ MergeableAtTwoDepths(SelectionsOf(Parse(original)))
    /\ Len(gql_doc[1].selections) = 1
    /\ Len(Children(gql_doc[1].selections[1])) = 1

\* the paths from the root to a selection without children: a path is the
\* sequence of the heads of its selections
RECURSIVE LeafPaths(_)
LeafPaths(sels) ==
    UNION { IF Children(sels[i]) = <<>> THEN { <<Key(sels[i])>> }
            ELSE { <<Key(sels[i])>> \o q : q \in LeafPaths(Children(sels[i])) } :
            i \in 1..Len(sels) }

\* the paths from the root to any selection
RECURSIVE AllPaths(_)
AllPaths(sels) ==
    UNION { { <<Key(sels[i])>> }
            \cup { <<Key(sels[i])>> \o q : q \in AllPaths(Children(sels[i])) } :
            i \in 1..Len(sels) }

\* the number of selections at every depth
RECURSIVE SelectionCount(_)
SelectionCount(sels) ==
    IF sels = <<>> THEN 0
    ELSE 1 + SelectionCount(Children(Head(sels))) + SelectionCount(Tail(sels))

\* the paths of paths that go on to a further selection in the set all
Extended(paths, all) ==
    { q \in paths : \E r \in all : Len(r) > Len(q) /\ SubSeq(r, 1, Len(q)) = q }

LeafPathsKept(in, out) == LeafPaths(out) = LeafPaths(in)

LeafPathsKeptIn(doc, out) == IsOneOperation(doc) => LeafPathsKept(SelectionsOf(doc), out)

\* C21 as stated (paths): the set of root-to-leaf selection paths of the
\* normalised document is the set of root-to-leaf selection paths of the
\* input document.
C21_AsStated ==
    FirstZipDone => LeafPathsKeptIn(Parse(original), gql_doc[1].selections)

PathsKept(in, out) ==
    /\ AllPaths(out) = AllPaths(in)
    /\ SelectionCount(out) = Cardinality(AllPaths(in))
    /\ LeafPaths(out) = LeafPaths(in) \ Extended(LeafPaths(in), AllPaths(in))

PathsKeptIn(doc, out) == IsOneOperation(doc) => PathsKept(SelectionsOf(doc), out)

\* C21 (paths): the set of paths from the root to a selection, leaf or not,
\* of the normalised document is that of the input document, and every
\* path occurs once in the normalised document; its root-to-leaf paths are
\* those of the input but for the ones another occurrence of which goes on
\* to children.
C21_PathsKept ==
    FirstZipDone => PathsKeptIn(Parse(original), gql_doc[1].selections)

\* in has a field without children and then the same field with children,
\* and another pair of same fields whose children differ
LeafAndBranch(in) ==
    /\ \E i, j \in 1..Len(in) :
          /\ i < j
          /\ SameSelection(in[i], in[j])
          /\ Children(in[i]) = <<>>
          /\ Children(in[j]) # <<>>
    /\ Extended(LeafPaths(in), AllPaths(in)) # {}

\* such a document was zipped
C21_Witness ==
    /\ FirstZipDone
    /\ IsOneOperation(Parse(original))
    /\ LeafAndBranch(SelectionsOf(Parse(original)))
    /\ SelectionCount(gql_doc[1].selections) < SelectionCount(SelectionsOf(Parse(original)))

(***************************************************************************)
(* Properties of the type system.                                          *)
(***************************************************************************)
\* assign_type has answered
Assigned == tpc = "assigned"

\* the boundary scenarios that name both types
NamedScenarios ==
    /\ (next_type = Const(IntType, "5") /\ self_type = IntType) => assignable
    /\ (next_type = UnionType(<<IntType, StringType>>) /\ self_type = IntType) => ~ assignable
    /\ (next_type = IntType /\ self_type = UnionType(<<IntType, StringType>>)) => assignable

\* reflexivity, and a Union source is accepted only if every member is
ReflexiveAndUnionSource ==
    /\ next_type = self_type => assignable
    /\ (next_type.kind = "Union" /\ assignable) =>
           \A i \in 1..Len(next_type.args) : assign_type(next_type.args[i], self_type)

\* some member of the Union self_type accepts next_type
SomeMemberAccepts ==
    \E i \in 1..Len(self_type.args) : assign_type(next_type, self_type.args[i])

\* C11 as stated (type assignability): the five boundary scenarios, with
\* assign_type(Any, X) succeeding for every X and assign_type(X, Invalid)
\* failing for every X but Invalid, and the general rules, with a Union
\* destination accepting any T iff one of its members accepts T.
C11_AsStated ==
    Assigned =>
        /\ NamedScenarios
        /\ next_type = AnyType => assignable
        /\ (self_type = InvalidType /\ next_type # InvalidType) => ~ assignable
        /\ ReflexiveAndUnionSource
        /\ self_type.kind = "Union" => (assignable <=> SomeMemberAccepts)

\* C11 (type assignability), amended: the scenarios hold with
\* assign_type(Any, X) succeeding for every X but Invalid and
\* assign_type(X, Invalid) failing for every X but Invalid and Any;
\* assign_type is reflexive, a Union source is accepted only if every
\* member is, and a Union destination accepts a T that is not itself a
\* Union iff one of its members accepts T.
C11_Assignability ==
    Assigned =>
        /\ NamedScenarios
        /\ (next_type = AnyType /\ self_type # InvalidType) => assignable
        /\ (self_type = InvalidType /\ next_type \notin {InvalidType, AnyType}) => ~ assignable
        /\ ReflexiveAndUnionSource
        /\ (self_type.kind = "Union" /\ next_type.kind # "Union") =>
               (assignable <=> SomeMemberAccepts)

\* a constant was accepted by a Union one of whose members is its value type
C11_Witness ==
    /\ Assigned
    /\ next_type = Const(IntType, "5")
    /\ self_type = UnionType(<<StringType, IntType>>)
    /\ assignable

\* merge_types has been applied, to two TypedDicts
Merged == tpc = "merge" /\ merges >= 1
MergedTypedDicts ==
    Merged /\ merged_with[1].kind = "TypedDict" /\ merged_with[2].kind = "TypedDict"

KeySet(t) == { t.val[i] : i \in 1..Len(t.val) }
Members(t) == IF t.kind = "Union" THEN { t.args[i] : i \in 1..Len(t.args) } ELSE {t}

\* r is the merge of x and y, key by key through nested TypedDicts
RECURSIVE MergesTo(_, _, _)
MergesTo(r, x, y) ==
    IF x.kind = "TypedDict" /\ y.kind = "TypedDict"
    THEN /\ r.kind = "TypedDict"
         /\ KeySet(r) = KeySet(x) \cup KeySet(y)
         /\ Len(r.val) = Cardinality(KeySet(r))
         /\ \A key \in KeySet(r) :
               IF key \in KeySet(x) /\ key \in KeySet(y)
               THEN MergesTo(PropertyType(r, key), PropertyType(x, key), PropertyType(y, key))
               ELSE IF key \in KeySet(x) THEN PropertyType(r, key) = PropertyType(x, key)
               ELSE PropertyType(r, key) = PropertyType(y, key)
    ELSE IF x = y THEN r = x
    ELSE r.kind = "Union" /\ Members(r) = Members(x) \cup Members(y)

RECURSIVE UnionsWellFormed(_)
UnionsWellFormed(t) ==
    /\ t.kind = "Union" =>
          /\ Len(t.args) >= 2
          /\ \A i, j \in 1..Len(t.args) : i # j => t.args[i] # t.args[j]
          /\ \A i \in 1..Len(t.args) : t.args[i].kind # "Union"
    /\ \A i \in 1..Len(t.args) : UnionsWellFormed(t.args[i])

\* C13 (Union invariant): after any sequence of merge_types calls every
\* Union in the merged type has at least two members, no duplicate member
\* and no Union as a direct member; merging two equal types gives that type.
C13_UnionInvariant ==
    tpc = "merge" =>
        /\ UnionsWellFormed(merged)
        /\ (merges >= 1 /\ merged_with[1] = merged_with[2]) => merged = merged_with[1]

\* a Union of three members, itself the result of a merge, was merged with
\* one of its members
C13_Witness ==
    /\ tpc = "merge"
    /\ merges = 2
    /\ merged_with[1] = UnionType(<<IntType, StringType, NoneType>>)
    /\ merged_with[2] = StringType
    /\ merged = merged_with[1]

=============================================================================
